---- MODULE Spec2Model ----
(***************************************************************************)
(* The game replay engine of bricks (src/src/state.rs, src/src/feed.rs)    *)
(* as a state machine.  The variables are the fields of `State`; one       *)
(* action pushes one feed event (`State::push`), one action ends the       *)
(* replay (`State::finish`).  The engine is driven as `process_game`       *)
(* drives it: events are pushed in feed order, the first failing push ends *)
(* the replay, and `finish` is called once, after the last event.          *)
(*                                                                         *)
(* Identifiers (player ids, team ids, names) are strings.  A description   *)
(* is modelled by the pattern of `push_inner` it matches (`desc`) and the  *)
(* name that pattern extracts from it (`name`).                            *)
(***************************************************************************)
EXTENDS Integers, Sequences, FiniteSets, TLC

VARIABLES
    game,                   \* Game: away, home, kind, day, weather
    game_started,
    game_finished,
    inning,
    top_of_inning,
    last_runs_cmp,          \* Ordering: "Less" | "Equal" | "Greater"
    half_inning_outs,
    at_bat,                 \* Option<Uuid>
    last_fielded_out,       \* Option<Uuid>
    rbi_credit,             \* Option<Uuid>
    save_situation,         \* [Option<SaveSituation>; 2], away then home
    on_base,                \* Vec<Runner>
    on_base_start_of_play,  \* Vec<Runner>
    expected,               \* (u16, u16)
    mods,                   \* HashSet<(Uuid, "FROZEN")>, as the set of ids
    phase,                  \* "running" | "failed" | "panicked" | "finished"
    outcome,                \* result of the last push or of finish: "" is Ok
    last,                   \* the event of the last push (None before any)
    npushed,                \* number of events pushed so far
    seen_over,              \* a kind-11 event has been accepted by push
    wrapped,                \* an unchecked subtraction has wrapped (release build)
    store,                  \* the tables game_debug, game_stats, player_stats
    job,                    \* process_game of each game: position and locals
    calc,                   \* a Fraction computation: operands, operation, result
    chronicler              \* the resolver's cache tree and its last load

vars == <<game, game_started, game_finished, inning, top_of_inning,
          last_runs_cmp, half_inning_outs, at_bat, last_fielded_out,
          rbi_credit, save_situation, on_base, on_base_start_of_play,
          expected, mods, phase, outcome, last, npushed, seen_over, wrapped,
          store, job, calc, chronicler>>

----------------------------------------------------------------------------
(* Values *)

\* Uuid::default(), the placeholder id
Nil == "nil"
\* Option::None
None == "none"

\* an Option of a number, a list or a record: Absent, or Some(x) read by Get
Absent == <<>>
Some(x) == <<x>>
Get(o) == o[1]

U16 == 65536

\* A u32 counter is kept as the signed reading of its 32 bits: 0 .. I32Max
\* are themselves, and -1 stands for 4294967295, -2 for 4294967294, ...
I32Max == 2147483647

\* x + 1 and x - 1 on a u32, wrapping
Inc32(x) == IF x = I32Max THEN -I32Max - 1 ELSE x + 1
Dec32(x) == IF x = -I32Max - 1 THEN I32Max ELSE x - 1

\* a < b and a <= b between two u32
Lt32(a, b) == IF (a < 0) = (b < 0) THEN a < b ELSE b < 0
Le32(a, b) == a = b \/ Lt32(a, b)

\* Stats::default(): every counter the engine touches
DefaultStats ==
    [plate_appearances |-> 0, at_bats |-> 0, at_bats_with_risp |-> 0,
     hits_with_risp |-> 0, singles |-> 0, doubles |-> 0, triples |-> 0,
     home_runs |-> 0, runs |-> 0, runs_batted_in |-> 0, sacrifices |-> 0,
     stolen_bases |-> 0, caught_stealing |-> 0, strike_outs |-> 0,
     double_plays_grounded_into |-> 0, walks |-> 0, left_on_base |-> 0,
     games_batted |-> 0,
     games_started |-> 0, games_finished |-> 0, complete_games |-> 0,
     shutouts |-> 0, no_hitters |-> 0, perfect_games |-> 0, wins |-> 0,
     losses |-> 0, saves |-> 0, batters_faced |-> 0, outs_recorded |-> 0,
     hits_allowed |-> 0, home_runs_allowed |-> 0, earned_runs |-> 0,
     struck_outs |-> 0, walks_issued |-> 0, strikes_pitched |-> 0,
     balls_pitched |-> 0, flyouts_pitched |-> 0, groundouts_pitched |-> 0,
     games_pitched |-> 0]

BattingFields ==
    {"plate_appearances", "at_bats", "at_bats_with_risp", "hits_with_risp",
     "singles", "doubles", "triples", "home_runs", "runs", "runs_batted_in",
     "sacrifices", "stolen_bases", "caught_stealing", "strike_outs",
     "double_plays_grounded_into", "walks", "left_on_base"}

PitchingFields ==
    {"games_started", "games_finished", "complete_games", "shutouts",
     "no_hitters", "perfect_games", "wins", "losses", "saves",
     "batters_faced", "outs_recorded", "hits_allowed", "home_runs_allowed",
     "earned_runs", "struck_outs", "walks_issued", "strikes_pitched",
     "balls_pitched", "flyouts_pitched", "groundouts_pitched"}

\* Stats::is_batting / Stats::is_pitching: any activity of that family
is_batting(stats) == \E f \in BattingFields : stats[f] # 0
is_pitching(stats) == \E f \in PitchingFields : stats[f] # 0

\* componentwise sum of two Stats (derive Add)
AddStats(a, b) == [f \in DOMAIN DefaultStats |-> a[f] + b[f]]

\* an empty map
EmptyMap == [x \in {} |-> 0]

\* Team::default()
DefaultTeam ==
    [id |-> Nil, won |-> FALSE, player_names |-> <<>>, lineup |-> <<>>,
     pitchers |-> <<>>, pitcher_of_record |-> Nil, saving_pitcher |-> None,
     stats |-> EmptyMap, inning_runs |-> EmptyMap, left_on_base |-> 0,
     crisp |-> {}, nickname |-> ""]

Sides == <<"away", "home">>

----------------------------------------------------------------------------
(* Maps and lists *)

RECURSIVE SumSeq(_)
SumSeq(q) == IF q = <<>> THEN 0 ELSE Head(q) + SumSeq(Tail(q))

RECURSIVE SumOver(_, _)
\* the sum of f[k] over k in S
SumOver(f, S) ==
    IF S = {} THEN 0
    ELSE LET k == CHOOSE x \in S : TRUE IN f[k] + SumOver(f, S \ {k})

Range(q) == {q[i] : i \in DOMAIN q}

\* the map m without key k
Without(m, k) == [x \in (DOMAIN m) \ {k} |-> m[x]]

\* the map m with only the keys in K
Restrict(m, K) == [x \in (DOMAIN m) \cap K |-> m[x]]

\* map.insert(k, v)
Insert(m, k, v) == [x \in (DOMAIN m) \cup {k} |-> IF x = k THEN v ELSE m[x]]

\* stats.entry(k).or_default()
Entry(stats, k) == IF k \in DOMAIN stats THEN stats ELSE Insert(stats, k, DefaultStats)

\* stats.get(k).copied().unwrap_or_default()
StatsOf(stats, k) == IF k \in DOMAIN stats THEN stats[k] ELSE DefaultStats

\* player_names is a HashMap, kept as the list of its entries (unique ids) in
\* the order they were inserted; the order it iterates in is not that order
\* but one the random keys of its hasher decide
IterOrders == {"forward", "backward"}

NameIds(names) == {names[i].id : i \in DOMAIN names}

HasName(names, id) == id \in NameIds(names)

\* player_names.insert(id, name): replaces the value in place, or appends
NameInsert(names, id, name) ==
    IF HasName(names, id)
    THEN [i \in DOMAIN names |->
            IF names[i].id = id THEN [id |-> id, name |-> name] ELSE names[i]]
    ELSE Append(names, [id |-> id, name |-> name])

\* player_names.entry(id).or_insert_with(name)
NameOrInsert(names, id, name) ==
    IF HasName(names, id) THEN names ELSE Append(names, [id |-> id, name |-> name])

NameRemove(names, id) == SelectSeq(names, LAMBDA en : en.id # id)

\* Team::runs(): the sum of the inning_runs buckets
runs(team) == SumOver(team.inning_runs, DOMAIN team.inning_runs)

\* Team::positions(): the lineup positions, then the pitcher stack
positions(team) == Append(team.lineup, team.pitchers)

----------------------------------------------------------------------------
(* The engine state as one record, threaded through the handlers.  `err`   *)
(* is the error a `?`, bail! or ensure! has returned ("" while Ok); every  *)
(* handler leaves a state that already carries an error untouched, as the  *)
(* early return does.  `ovf` records that an unchecked subtraction passed  *)
(* zero: a panic with overflow checks, a wrap without.                     *)

Cur ==
    [game |-> game, game_started |-> game_started,
     game_finished |-> game_finished, inning |-> inning,
     top_of_inning |-> top_of_inning, last_runs_cmp |-> last_runs_cmp,
     half_inning_outs |-> half_inning_outs, at_bat |-> at_bat,
     last_fielded_out |-> last_fielded_out, rbi_credit |-> rbi_credit,
     save_situation |-> save_situation, on_base |-> on_base,
     on_base_start_of_play |-> on_base_start_of_play,
     expected |-> expected, mods |-> mods, err |-> "", ovf |-> FALSE,
     iter |-> "forward"]

Ok(s) == s.err = ""

\* bail!(msg), or a failed ensure! / context
Fail(s, msg) == IF Ok(s) THEN [s EXCEPT !.err = msg] ELSE s

OffSide(s) == IF s.top_of_inning THEN "away" ELSE "home"
DefSide(s) == IF s.top_of_inning THEN "home" ELSE "away"

offense(s) == s.game[OffSide(s)]
defense(s) == s.game[DefSide(s)]

\* *self.defense().pitchers.last().unwrap(): the stack is never empty,
\* State::new pushes one pitcher per team and nothing pops
pitcher(s) == LET p == defense(s).pitchers IN p[Len(p)]

ensure_pitchers_known(s) ==
    IF \A side \in {"away", "home"} : s.game[side].pitchers[1] # Nil
    THEN s
    ELSE Fail(s, "initial pitchers are unknown")

\* *f(team.stats.entry(player).or_default()) += 1
Bump(s, side, player, f) ==
    [s EXCEPT !.game[side].stats =
        LET m == Entry(@, player) IN [m EXCEPT ![player][f] = Inc32(@)]]

record_runner_event(s, runner, f) ==
    IF ~Ok(s) THEN s ELSE Bump(s, OffSide(s), runner, f)

\* the batter's counter goes up twice
record_batter_event_twice(s, f) ==
    IF ~Ok(s) THEN s
    ELSE IF s.at_bat = None THEN Fail(s, "nobody at bat")
    ELSE Bump(Bump(s, OffSide(s), s.at_bat, f), OffSide(s), s.at_bat, f)

record_batter_event(s, f) ==
    IF ~Ok(s) THEN s
    ELSE IF s.at_bat = None THEN Fail(s, "nobody at bat")
    ELSE Bump(s, OffSide(s), s.at_bat, f)

record_pitcher_event(s, f) ==
    IF ~Ok(s) THEN s ELSE Bump(s, DefSide(s), pitcher(s), f)

Compare(a, b) == IF a < b THEN "Less" ELSE IF a = b THEN "Equal" ELSE "Greater"

runs_cmp(s) == Compare(runs(s.game.away), runs(s.game.home))

is_game_over(s) ==
    /\ s.inning >= 9
    /\ ~s.top_of_inning
    /\ s.half_inning_outs = 3
    /\ runs(s.game.away) # runs(s.game.home)

\* index into save_situation of the team on defense
DefIndex(s) == IF s.top_of_inning THEN 2 ELSE 1

\* every batter the pitcher faces with a one-run lead raises the tag
check_save_every_batter(s) ==
    IF ~Ok(s) THEN s
    ELSE LET s1 == [s EXCEPT !.game[DefSide(s)].stats = Entry(@, pitcher(s))]
         IN IF /\ runs(defense(s1)) > runs(offense(s1))
               /\ runs(offense(s1)) + 1 >= runs(defense(s1))
               /\ ~is_game_over(s1)
            THEN [s1 EXCEPT !.save_situation[DefIndex(s1)] = "TyingRun"]
            ELSE s1

check_save_situation(s) ==
    IF ~Ok(s) THEN s
    ELSE LET s1 == [s EXCEPT !.game[DefSide(s)].stats = Entry(@, pitcher(s))]
         IN IF /\ defense(s1).stats[pitcher(s1)].batters_faced = 1
               /\ runs(defense(s1)) > runs(offense(s1))
               /\ runs(offense(s1)) + 1 >= runs(defense(s1))
               /\ ~is_game_over(s1)
            THEN [s1 EXCEPT !.save_situation[DefIndex(s1)] = "TyingRun"]
            ELSE s1

risp(s) == \E i \in DOMAIN s.on_base_start_of_play :
              s.on_base_start_of_play[i].base >= 1

RemoveAt(q, i) == SubSeq(q, 1, i - 1) \o SubSeq(q, i + 1, Len(q))

RunnerIndices(q, id) == {i \in DOMAIN q : q[i].id = id}

\* the least index of a runner with this id (0 when there is none)
FirstRunner(q, id) ==
    IF RunnerIndices(q, id) = {} THEN 0
    ELSE CHOOSE i \in RunnerIndices(q, id) : \A j \in RunnerIndices(q, id) : i <= j

\* remove_runner: Ok(Some(runner)) removes it, Ok(None) leaves the list, and
\* two runners with the id are an error.  `missing` is the error of the
\* caller's .context(..)? on None ("" when the caller ignores None).
remove_runner(s, id, missing) ==
    IF ~Ok(s) THEN s
    ELSE LET idx == RunnerIndices(s.on_base, id)
         IN IF Cardinality(idx) > 1
            THEN Fail(s, "can't determine which runner to remove from bases")
            ELSE IF idx = {}
            THEN (IF missing = "" THEN s ELSE Fail(s, missing))
            ELSE [s EXCEPT !.on_base = RemoveAt(@, FirstRunner(@, id))]

RECURSIVE FixFrom(_, _, _)
\* the loop of fix_minimum_base, at runner i with the base of runner i+1
FixFrom(q, i, lastb) ==
    IF i = 0 THEN q
    ELSE LET b == IF q[i].base <= lastb
                  THEN (IF lastb = 0 THEN 1 ELSE lastb)
                  ELSE q[i].base
         IN FixFrom([q EXCEPT ![i].base = b], i - 1, b)

\* the list is left as it was pushed
unfixed(q) == q

fix_minimum_base(q) ==
    IF q = <<>> THEN q ELSE FixFrom(q, Len(q) - 1, q[Len(q)].base)

\* the defense's pitcher of the play takes the candidacy
current_pitcher_of_defense(s, charged) == pitcher(s)

\* self.defense_mut().pitcher_of_record = pitcher: the pitcher stored with
\* the runner who scored
charged_pitcher(s, charged) == charged

credit_run(s, runner) ==
    IF ~Ok(s) THEN s
    ELSE LET index == FirstRunner(s.on_base, runner)
         IN IF index = 0
            THEN Fail(s, "cannot determine pitcher to charge with earned run")
            ELSE
            LET charged == s.on_base[index].pitcher
                off == OffSide(s)
                def == DefSide(s)
                s1 == [s EXCEPT !.on_base = RemoveAt(@, index),
                                !.game[off].inning_runs =
                                    IF s.inning \in DOMAIN @
                                    THEN [@ EXCEPT ![s.inning] = (@ + 1) % U16]
                                    ELSE Insert(@, s.inning, 1)]
                s2 == record_runner_event(s1, runner, "runs")
                s3 == IF s2.rbi_credit # None
                      THEN record_runner_event(s2, s2.rbi_credit, "runs_batted_in")
                      ELSE s2
                s4 == Bump(s3, def, charged, "earned_runs")
                cmp == runs_cmp(s4)
            IN IF cmp # s4.last_runs_cmp /\ cmp # "Equal"
               THEN [s4 EXCEPT
                       !.game[off].pitcher_of_record =
                           s4.game[off].pitchers[Len(s4.game[off].pitchers)],
                       !.game[def].pitcher_of_record = charged_pitcher(s4, charged)]
               ELSE s4

----------------------------------------------------------------------------
(* Handlers of State *)

\* Team::replace_placeholder_pitcher: when the team's starting pitcher is
\* still the placeholder, the id, its Stats and its name entry are replaced
\* by this pitcher's; answers whether it did
has_placeholder_pitcher(team) == team.pitchers # <<>> /\ team.pitchers[1] = Nil

replace_placeholder_pitcher(team, id, name) ==
    IF ~has_placeholder_pitcher(team) \/ id = Nil THEN team
    ELSE [team EXCEPT
            !.pitchers = [@ EXCEPT ![1] = id],
            !.stats = IF Nil \in DOMAIN @
                      THEN Insert(Without(@, Nil), id,
                                  AddStats(StatsOf(@, id), @[Nil]))
                      ELSE @,
            !.player_names = NameInsert(NameRemove(@, Nil), id, name)]

replaces_placeholder(team, id) == has_placeholder_pitcher(team) /\ id # Nil

\* self.batter()
batter(s) == IF ~Ok(s) THEN s
             ELSE IF s.at_bat = None THEN Fail(s, "nobody at bat") ELSE s

\* the first id that carries this name in the offense's player_names
NameMatches(names, name) == {i \in DOMAIN names : names[i].name = name}

\* player_names.iter().find(|(_, n)| n == name): the entry with this name
\* that the iteration meets first
find(s, names, name) ==
    names[CHOOSE i \in NameMatches(names, name) :
             \A j \in NameMatches(names, name) :
                IF s.iter = "forward" THEN i <= j ELSE i >= j].id

\* name_lookup(name, id): the tagged id, else the id found by name
CanLookup(s, name, tag) ==
    tag # None \/ NameMatches(offense(s).player_names, name) # {}

name_lookup(s, name, tag) ==
    IF tag # None THEN tag ELSE find(s, offense(s).player_names, name)

\* event.player_tags.get(i).copied()
TagAt(e, i) == IF i <= Len(e.player_tags) THEN e.player_tags[i] ELSE None

\* the first half-inning marker flips the half like every other
next_half_inning_flipping(s) ==
    IF ~Ok(s) THEN s
    ELSE LET s1 == [s EXCEPT !.game[OffSide(s)].left_on_base = @ + Len(s.on_base),
                             !.game_started = TRUE]
             s2 == [s1 EXCEPT !.top_of_inning = ~@,
                              !.inning = IF ~s1.top_of_inning
                                         THEN (@ + 1) % U16 ELSE @]
         IN [s2 EXCEPT !.game[OffSide(s2)].inning_runs = Insert(@, s2.inning, 0),
                       !.half_inning_outs = 0,
                       !.on_base = <<>>]

next_half_inning(s) ==
    IF ~Ok(s) THEN s
    ELSE LET s1 == [s EXCEPT !.game[OffSide(s)].left_on_base = @ + Len(s.on_base)]
             s2 == IF s1.game_started
                   THEN [s1 EXCEPT !.top_of_inning = ~@,
                                   !.inning = IF ~s1.top_of_inning
                                              THEN (@ + 1) % U16 ELSE @]
                   ELSE [s1 EXCEPT !.game_started = TRUE]
         IN [s2 EXCEPT !.game[OffSide(s2)].inning_runs = Insert(@, s2.inning, 0),
                       !.half_inning_outs = 0,
                       !.on_base = <<>>]

\* the batter is charged with nobody left on base
AddNoLob(s, player, n) == s

\* offense_stats(batter).left_on_base += n
AddLob(s, player, n) ==
    [s EXCEPT !.game[OffSide(s)].stats =
        LET m == Entry(@, player) IN [m EXCEPT ![player].left_on_base = @ + n]]

\* the out of the batter is not put on the pitcher's line
batter_out_uncounted(s) ==
    IF ~Ok(s) THEN s
    ELSE LET s1 == [s EXCEPT !.half_inning_outs = (@ + 1) % U16]
         IN IF s1.at_bat = None THEN Fail(s1, "nobody at bat")
            ELSE [record_batter_event(s1, "plate_appearances") EXCEPT !.at_bat = None]

batter_out(s) ==
    IF ~Ok(s) THEN s
    ELSE LET s1 == [s EXCEPT !.half_inning_outs = (@ + 1) % U16]
         IN IF s1.at_bat = None THEN Fail(s1, "nobody at bat")
            ELSE
            LET s2 == AddLob(s1, s1.at_bat, Len(s1.on_base))
                s3 == record_batter_event(
                          record_batter_event(s2, "plate_appearances"), "at_bats")
                s4 == IF risp(s3)
                      THEN record_batter_event(s3, "at_bats_with_risp") ELSE s3
                s5 == [s4 EXCEPT !.at_bat = None]
                s6 == check_save_situation(record_pitcher_event(s5, "batters_faced"))
            IN record_pitcher_event(
                   record_pitcher_event(s6, "strikes_pitched"), "outs_recorded")

\* the counter is left as it is
NoDecrement(s, player, f) == s

\* x -= 1 on a u32 counter of the offense's Stats of this player
Decrement(s, player, f) ==
    LET m == Entry(s.game[OffSide(s)].stats, player)
    IN [s EXCEPT !.game[OffSide(s)].stats =
                     [m EXCEPT ![player][f] = Dec32(@)],
                 !.ovf = @ \/ m[player][f] = 0]

sac(s, e) ==
    IF ~Ok(s) THEN s
    ELSE IF Len(e.player_tags) # 1 THEN Fail(s, "invalid player tag count")
    ELSE LET s1 == credit_run(s, e.player_tags[1])
         IN IF ~Ok(s1) THEN s1
            ELSE IF s1.last_fielded_out = None
            THEN Fail(s1, "sac advance without a prior fielded out")
            ELSE
            LET b == s1.last_fielded_out
                s2 == Bump(Bump(s1, OffSide(s1), b, "sacrifices"),
                           OffSide(s1), b, "runs_batted_in")
                s3 == Decrement(s2, b, "at_bats")
            IN IF risp(s1) THEN Decrement(s3, b, "at_bats_with_risp") ELSE s3

\* self.on_base.push(Runner { id: self.batter()?, pitcher, base });
\* self.fix_minimum_base()
push_runner(s, charged, base) ==
    IF ~Ok(s) THEN s
    ELSE IF s.at_bat = None THEN Fail(s, "nobody at bat")
    ELSE [s EXCEPT !.on_base = fix_minimum_base(
             Append(@, [id |-> s.at_bat, pitcher |-> charged, base |-> base]))]

\* the double play branch of fielded_out
CraigFaucet == "craig"

LastNotIn(q, ids) ==
    LET cand == {i \in DOMAIN q : q[i].id \notin ids}
    IN IF cand = {} THEN 0 ELSE CHOOSE i \in cand : \A j \in cand : j <= i

double_play(s, e) ==
    LET s1 == [s EXCEPT !.half_inning_outs = (@ + 1) % U16, !.rbi_credit = None]
        s2 == record_pitcher_event(
                  record_pitcher_event(
                      record_batter_event(s1, "double_plays_grounded_into"),
                      "groundouts_pitched"),
                  "outs_recorded")
    IN IF ~Ok(s2) THEN s2
       ELSE IF e.id = "dpfix"
       THEN LET s3 == remove_runner(s2, CraigFaucet, "")
            IN IF ~Ok(s3) THEN s3 ELSE AddLob(s3, s3.at_bat, 1)
       ELSE IF Len(s2.on_base) = 1
       THEN AddLob([s2 EXCEPT !.on_base = <<>>], s2.at_bat, 1)
       ELSE IF s2.half_inning_outs = 2
       THEN LET n == Len(s2.on_base)
                s3 == AddLob(s2, s2.at_bat, n)
            IN [s3 EXCEPT !.game[OffSide(s3)].left_on_base = @ + n,
                          !.on_base = <<>>]
       ELSE IF e.base_runners = Absent
       THEN Fail(s2, "unable to determine runner out in double play")
       ELSE LET i == LastNotIn(s2.on_base, Range(Get(e.base_runners)))
            IN IF i = 0
               THEN Fail(s2, "unable to determine runner out in double play")
               ELSE LET s3 == remove_runner(s2, s2.on_base[i].id, "")
                    IN IF ~Ok(s3) THEN s3 ELSE AddLob(s3, s3.at_bat, 1)

\* the batter is charged to the pitcher of the play
pitcher_of_play(s, idx) == pitcher(s)

\* .pitcher of the Runner that remove_runner returned: the batter who
\* reaches on the fielder's choice is charged to the pitcher of the runner
\* put out (idx = 0: no such runner, the caller fails)
pitcher_of_removed(s, idx) == IF idx = 0 THEN Nil ELSE s.on_base[idx].pitcher

fielded_out(s, e) ==
    IF ~Ok(s) THEN s
    ELSE IF e.desc = "out_at"
    THEN \* fielder's choice
         LET s1 == record_pitcher_event(s, "groundouts_pitched")
             names == offense(s1).player_names
         IN IF NameMatches(names, e.name) = {}
            THEN Fail(s1, "could not determine id for baserunner")
            ELSE LET out == find(s1, names, e.name)
                     idx == FirstRunner(s1.on_base, out)
                     charged == pitcher_of_removed(s1, idx)
                     s2 == remove_runner(s1, out,
                               "baserunner out in fielder's choice not on base")
                 IN batter_out(push_runner(s2, charged, 0))
    ELSE IF e.desc = "double_play"
    THEN batter_out(double_play(s, e))
    ELSE IF e.desc = "flyout"
    THEN batter_out([record_pitcher_event(s, "flyouts_pitched")
                        EXCEPT !.last_fielded_out = s.at_bat])
    ELSE IF e.desc = "ground_out"
    THEN batter_out([record_pitcher_event(s, "groundouts_pitched")
                        EXCEPT !.last_fielded_out = s.at_bat])
    ELSE Fail(s, "unreachable")

\* the batter reaches base: the shared sequence of walk and of hit's common!
reach_base(s, base, is_hit) ==
    LET s1 == push_runner(s, pitcher(s), base)
        s2 == record_batter_event(s1, "plate_appearances")
        s3 == IF is_hit
              THEN LET h == record_batter_event(s2, "at_bats")
                   IN IF Ok(h) /\ risp(h)
                      THEN record_batter_event(
                               record_batter_event(h, "at_bats_with_risp"),
                               "hits_with_risp")
                      ELSE h
              ELSE record_batter_event(s2, "walks")
        s4 == IF Ok(s3) THEN [s3 EXCEPT !.rbi_credit = s3.at_bat, !.at_bat = None]
              ELSE s3
        s5 == check_save_situation(record_pitcher_event(s4, "batters_faced"))
    IN IF is_hit
       THEN record_pitcher_event(
                record_pitcher_event(s5, "strikes_pitched"), "hits_allowed")
       ELSE record_pitcher_event(s5, "walks_issued")

\* "<name> scores!" in walk (tag 1) and in hit (tag 0)
scores(s, e, i) ==
    IF ~CanLookup(s, e.name, TagAt(e, i)) THEN Fail(s, "unable to find ID")
    ELSE credit_run(s, name_lookup(s, e.name, TagAt(e, i)))

\* walk(event): Ok(false) is the caller's checkdesc! failure
walk(s, e) ==
    IF ~Ok(s) THEN s
    ELSE IF e.desc = "walk" THEN reach_base(s, 0, FALSE)
    ELSE IF e.desc = "scores" THEN scores(s, e, 2)
    ELSE Fail(s, "unexpected event description")

HitBase(desc) == IF desc = "single" THEN 0 ELSE IF desc = "double" THEN 1 ELSE 2

hit(s, e) ==
    IF ~Ok(s) THEN s
    ELSE IF e.ty = 9 /\ e.desc = "home_run"
    THEN reach_base(
             record_pitcher_event(record_batter_event(s, "home_runs"),
                                  "home_runs_allowed"), 3, TRUE)
    ELSE IF e.ty = 10 /\ e.desc \in {"single", "double", "triple"}
    THEN reach_base(record_batter_event(s, e.desc \o "s"), HitBase(e.desc), TRUE)
    ELSE IF e.desc = "scores" THEN scores(s, e, 1)
    ELSE Fail(s, "unexpected event description")

RECURSIVE CreditAll(_, _)
CreditAll(s, q) ==
    IF q = <<>> \/ ~Ok(s) THEN s ELSE CreditAll(credit_run(s, Head(q).id), Tail(q))

\* only the batter scores, the runners are taken off the bases
home_run_solo(s, e) ==
    LET s1 == hit(s, e)
    IN IF ~Ok(s1) THEN s1
       ELSE LET s2 == credit_run(s1, s.at_bat)
            IN IF Ok(s2) THEN [s2 EXCEPT !.on_base = <<>>] ELSE s2

home_run(s, e) ==
    LET s1 == hit(s, e)
    IN IF ~Ok(s1) THEN s1
       ELSE LET s2 == CreditAll(s1, s1.on_base)
            IN IF Ok(s2) THEN [s2 EXCEPT !.on_base = <<>>] ELSE s2

\* the day from which a season of this sim plays its postseason (0: never)
PostseasonDay(sim) ==
    IF sim = "gamma8" THEN 99
    ELSE IF sim = "gamma9" THEN 166
    ELSE IF sim = "gamma10" THEN 219
    ELSE 0

\* team::load(team.id, at): the roster resolver's answer comes with the event,
\* `rosters[i]` for the i-th team (Absent: no data for the team)
RECURSIVE LoadTeams(_, _, _)
LoadTeams(s, e, i) ==
    IF i > 2 \/ ~Ok(s) THEN s
    ELSE IF e.rosters[i] = Absent
    THEN Fail(s, "no data for team")
    ELSE LoadTeams(
             [s EXCEPT !.game[Sides[i]].nickname = Get(e.rosters[i]).nickname,
                       !.game[Sides[i]].lineup =
                           @ \o [k \in DOMAIN Get(e.rosters[i]).lineup |->
                                    <<Get(e.rosters[i]).lineup[k]>>]],
             e, i + 1)

start_event(s, e) ==
    IF ~Ok(s) THEN s
    ELSE LET s1 == [s EXCEPT !.game.day = e.day]
         IN IF e.weather = Absent THEN Fail(s1, "missing weather")
            ELSE
            LET post == PostseasonDay(s.game.season)
                s2 == [s1 EXCEPT !.game.weather = Get(e.weather),
                                 !.game.kind = IF post > 0 /\ e.day >= post
                                               THEN "Postseason" ELSE "Regular"]
            IN IF Len(e.team_tags) # 2 THEN Fail(s2, "invalid team tag count")
               ELSE LoadTeams([s2 EXCEPT !.game.away.id = e.team_tags[1],
                                         !.game.home.id = e.team_tags[2]], e, 1)

\* the save situation a pitcher enters in
EntrySave(offense_runs, defense_runs, runners) ==
    IF defense_runs > offense_runs
    THEN IF offense_runs + 1 >= defense_runs \/ offense_runs + runners >= defense_runs
         THEN "TyingRun"
         ELSE IF defense_runs - offense_runs <= 3 THEN "LeadThreeOrLess" ELSE None
    ELSE None

\* the outs a starter must record (5 innings) to stay eligible for the win
StarterOuts == 15

\* the starter's Stats before the first pitch
FreshStarter == [DefaultStats EXCEPT !.games_started = 1]

pitcher_change(s, e) ==
    IF ~Ok(s) THEN s
    ELSE IF e.desc # "now_pitching" THEN Fail(s, "unexpected event description")
    ELSE IF Len(e.player_tags) # 1 THEN Fail(s, "invalid player tag count")
    ELSE
    LET def == DefSide(s)
        new == e.player_tags[1]
        known == Ok(ensure_pitchers_known(s))
        \* defense_stats(self.pitcher()) makes the entry
        first_of_first == s.inning = 1 /\ Len(defense(s).pitchers) = 1
        s0 == IF known \/ ~first_of_first THEN s
              ELSE [s EXCEPT !.game[def].stats = Entry(@, pitcher(s))]
        excused == first_of_first /\ defense(s0).stats[pitcher(s0)] = FreshStarter
    IN IF ~known /\ ~excused THEN Fail(s0, "initial pitchers are unknown")
       ELSE
       LET s1 == IF known THEN s0
                 ELSE [s0 EXCEPT !.game[def] =
                          replace_placeholder_pitcher(@, new, e.name)]
           old == pitcher(s1)
           s2 == IF Len(defense(s1).pitchers) = 1
                 THEN [s1 EXCEPT !.game[def].stats = Entry(@, old)]
                 ELSE s1
           s3 == IF Len(defense(s2).pitchers) = 1
                    /\ Lt32(defense(s2).stats[old].outs_recorded, StarterOuts)
                 THEN [s2 EXCEPT !.game[def].pitcher_of_record = Nil]
                 ELSE s2
       IN IF old = new THEN s1
          ELSE [s3 EXCEPT
                  !.game[def].pitchers = Append(@, new),
                  !.game[def].player_names = NameInsert(@, new, e.name),
                  !.save_situation[DefIndex(s)] =
                      EntrySave(runs(offense(s)), runs(defense(s)), Len(s.on_base))]

stolen_base(s, e) ==
    IF ~Ok(s) THEN s
    ELSE IF e.desc \notin {"caught_stealing", "steals", "steals_fourth"}
    THEN Fail(s, "unexpected event description")
    ELSE IF ~CanLookup(s, e.name, TagAt(e, 1)) THEN Fail(s, "unable to find ID")
    ELSE LET runner == name_lookup(s, e.name, TagAt(e, 1))
         IN IF e.desc = "caught_stealing"
            THEN LET s1 == record_runner_event(s, runner, "caught_stealing")
                     s2 == [s1 EXCEPT !.half_inning_outs = (@ + 1) % U16]
                 IN remove_runner(record_pitcher_event(s2, "outs_recorded"), runner,
                                  "runner caught stealing wasn't on base?")
            ELSE LET s1 == record_runner_event(s, runner, "stolen_bases")
                 IN IF e.desc = "steals_fourth" THEN credit_run(s1, runner) ELSE s1

\* the credits of the pitcher who finishes the game for this team
finishing_credits(team) ==
    LET p == team.pitchers[Len(team.pitchers)]
        m == Entry(team.stats, p)
        st == m[p]
        complete == st.games_started # 0
        shutout == complete /\ st.earned_runs = 0
        no_hitter == shutout /\ st.hits_allowed = 0
        perfect == no_hitter /\ st.walks_issued = 0
        c1 == [st EXCEPT !.games_finished = 1]
        c2 == IF complete THEN [c1 EXCEPT !.complete_games = 1] ELSE c1
        c3 == IF shutout THEN [c2 EXCEPT !.shutouts = 1] ELSE c2
        c4 == IF no_hitter THEN [c3 EXCEPT !.no_hitters = 1] ELSE c3
        c5 == IF perfect THEN [c4 EXCEPT !.perfect_games = 1] ELSE c4
    IN [team EXCEPT !.stats = [m EXCEPT ![p] = c5]]

game_over(s, e) ==
    IF ~Ok(s) THEN s
    ELSE LET s1 == [s EXCEPT !.game_finished = TRUE]
         IN IF e.winner = None THEN Fail(s1, "missing winner data")
            ELSE LET mark(team) ==
                         IF team.id = e.winner THEN [team EXCEPT !.won = TRUE] ELSE team
                 IN [s1 EXCEPT !.game.away = finishing_credits(mark(@)),
                               !.game.home = finishing_credits(mark(@))]

\* positions_mut(): position i of the lineup, or the pitcher stack after them
TopOf(q) == IF q = <<>> THEN None ELSE q[Len(q)]

PushWhereTop(team, top, ids) ==
    [team EXCEPT
        !.lineup = [i \in DOMAIN @ |-> IF TopOf(@[i]) = top THEN @[i] \o ids ELSE @[i]],
        !.pitchers = IF TopOf(@) = top THEN @ \o ids ELSE @]

PushFirstTop(team, top, ids) ==
    LET hits == {i \in DOMAIN team.lineup : TopOf(team.lineup[i]) = top}
    IN IF hits # {}
       THEN [team EXCEPT !.lineup[CHOOSE i \in hits : \A j \in hits : i <= j] = @ \o ids]
       ELSE [team EXCEPT !.pitchers = @ \o ids]

HasTop(team, top) ==
    \E i \in DOMAIN positions(team) : TopOf(positions(team)[i]) = top

plate_appearance(s, e) ==
    IF ~Ok(s) THEN s
    ELSE IF Len(e.player_tags) = 2 /\ e.desc = "inhabiting"
    THEN IF ~HasTop(offense(s), e.player_tags[2])
         THEN Fail(s, "unable to find position for inhabited player")
         ELSE [s EXCEPT !.game[OffSide(s)] =
                  PushFirstTop(@, e.player_tags[2],
                               <<e.player_tags[1], e.player_tags[2]>>)]
    ELSE IF Len(e.player_tags) \notin {1, 2} THEN Fail(s, "invalid player tag count")
    ELSE IF e.desc = "batting"
    THEN [s EXCEPT !.game[OffSide(s)].player_names =
                       NameInsert(@, e.player_tags[1], e.name),
                   !.at_bat = e.player_tags[1]]
    ELSE Fail(s, "unexpected event description")

\* a pitch: checkdesc!, then one counter of the pitcher
pitch(s, e, descs, f) ==
    IF ~Ok(s) THEN s
    ELSE IF e.desc \notin descs THEN Fail(s, "unexpected event description")
    ELSE record_pitcher_event(s, f)

\* the name of a player in either team's player_names, away first
AnyName(s, id) ==
    LET a == s.game.away.player_names
        h == s.game.home.player_names
    IN IF HasName(a, id) THEN a[CHOOSE i \in DOMAIN a : a[i].id = id].name
       ELSE IF HasName(h, id) THEN h[CHOOSE i \in DOMAIN h : h[i].id = id].name
       ELSE None

\* one team's part of player_trade: each position topped by one of the two
\* players gets the other pushed; `an`, `bn` are the names still to hand out
TradeTeam(team, a, b, an, bn) ==
    LET pos == positions(team)
        gets_b == {i \in DOMAIN pos : TopOf(pos[i]) = a}
        gets_a == {i \in DOMAIN pos : TopOf(pos[i]) = b /\ TopOf(pos[i]) # a}
        swapped == [i \in DOMAIN pos |->
                       IF i \in gets_b THEN Append(pos[i], b)
                       ELSE IF i \in gets_a THEN Append(pos[i], a) ELSE pos[i]]
        min(S) == CHOOSE i \in S : \A j \in S : i <= j
        ins_b == gets_b # {} /\ bn # None
        ins_a == gets_a # {} /\ an # None
        first == IF ins_b /\ (~ins_a \/ min(gets_b) < min(gets_a)) THEN "b" ELSE "a"
        n1 == IF ins_b /\ first = "b" THEN NameInsert(team.player_names, b, bn)
              ELSE team.player_names
        n2 == IF ins_a THEN NameInsert(n1, a, an) ELSE n1
        n3 == IF ins_b /\ first = "a" THEN NameInsert(n2, b, bn) ELSE n2
    IN [team |-> [team EXCEPT !.lineup = SubSeq(swapped, 1, Len(team.lineup)),
                              !.pitchers = swapped[Len(swapped)],
                              !.player_names = n3],
        an |-> IF ins_a THEN None ELSE an,
        bn |-> IF ins_b THEN None ELSE bn]

\* the two players stay where they are
no_trade(s, a, b) == s

player_trade(s, a, b) ==
    LET s0 == ensure_pitchers_known(s)
    IN IF ~Ok(s0) THEN s0
       ELSE LET away == TradeTeam(s.game.away, a, b, AnyName(s, a), AnyName(s, b))
                home == TradeTeam(s.game.home, a, b, away.an, away.bn)
            IN [s EXCEPT !.game.away = away.team,
                         !.game.home = home.team,
                         !.at_bat = IF @ = a THEN b ELSE IF @ = b THEN a ELSE @]

\* the two tagged players are traded whatever the description says
feedback_whatever(s, e) ==
    IF ~Ok(s) \/ Len(e.player_tags) # 2 THEN s
    ELSE player_trade(s, e.player_tags[1], e.player_tags[2])

feedback(s, e) ==
    IF ~Ok(s) \/ e.desc # "switch_teams" THEN s
    ELSE IF Len(e.player_tags) # 2 THEN Fail(s, "invalid team tag count")
    ELSE player_trade(s, e.player_tags[1], e.player_tags[2])

swap_within_team(s, e) ==
    IF ~Ok(s) THEN s
    ELSE IF e.desc \notin {"swapped_roster", "shuffled_reverb"}
    THEN Fail(s, "unexpected event description")
    ELSE IF e.extra.tag # "Swap"
    THEN Fail(s, "missing player swap data")
    ELSE LET s1 == player_trade(s, e.extra.a, e.extra.b)
             both(names) == NameInsert(NameInsert(names, e.extra.a, e.extra.a_name),
                                       e.extra.b, e.extra.b_name)
         IN IF ~Ok(s1) THEN s1
            ELSE [s1 EXCEPT !.game.away.player_names = both(@),
                            !.game.home.player_names = both(@)]

incineration(s, e) ==
    IF ~Ok(s) THEN s
    ELSE IF e.desc = "replaced_incinerated"
    THEN LET s0 == ensure_pitchers_known(s)
             repl(team) ==
                 IF team.id # e.extra.team_id THEN team
                 ELSE PushWhereTop(
                          [team EXCEPT !.player_names =
                               NameInsert(@, e.extra.in, e.extra.in_name)],
                          e.extra.out, <<e.extra.in>>)
         IN IF ~Ok(s0) THEN s0
            ELSE IF e.extra.tag # "Incineration"
            THEN Fail(s, "missing incineration replacement data")
            ELSE [s EXCEPT !.game.away = repl(@), !.game.home = repl(@)]
    ELSE IF e.desc = "replaced_by" THEN s
    ELSE Fail(s, "unexpected event description")

\* desc.contains(&team.name.nickname): the description names e.name
Mentions(e, nickname) == nickname = "" \/ nickname = e.name

reverb_lineup(s, e) ==
    IF ~Ok(s) THEN s
    ELSE IF ~\E i \in 1..2 : Mentions(e, s.game[Sides[i]].nickname)
    THEN Fail(s, "could not identify reverbed team")
    ELSE LET side == IF Mentions(e, s.game.away.nickname) THEN "away" ELSE "home"
             team == s.game[side]
         IN IF e.rosters[1] = Absent
            THEN Fail(s, "no data for team")
            ELSE IF Len(team.lineup) # Len(Get(e.rosters[1]).lineup)
            THEN Fail(s, "lineup size mismatch")
            ELSE [s EXCEPT !.game[side].lineup =
                     [i \in DOMAIN @ |->
                         IF TopOf(@[i]) # Get(e.rosters[1]).lineup[i]
                         THEN Append(@[i], Get(e.rosters[1]).lineup[i]) ELSE @[i]]]

modification(s, e) ==
    IF ~Ok(s) THEN s
    ELSE IF e.mod = None THEN Fail(s, "missing modification data")
    ELSE IF e.mod = "FROZEN" /\ e.desc = "was_frozen"
            /\ CanLookup(s, e.name, TagAt(e, 1))
    THEN LET player == name_lookup(s, e.name, TagAt(e, 1))
         IN [s EXCEPT !.mods = IF e.ty % 2 = 0 THEN @ \cup {player}
                               ELSE @ \ {player}]
    ELSE s

----------------------------------------------------------------------------
(* Sequencing (GameEvent::expect, GameEvent::next) *)

\* GameEvent::next, with the u16 additions wrapping
next(e) ==
    IF e.sub_play + 1 = e.nsib
    THEN <<(e.play + 1) % U16, 0>>
    ELSE <<e.play, (e.sub_play + 1) % U16>>

\* an unchecked u16 addition of next() passes 65535
next_overflows(e) ==
    IF e.sub_play + 1 = e.nsib THEN e.play = U16 - 1 ELSE e.sub_play = U16 - 1

\* the event is the one expected
in_sequence(e, exp) == exp = <<e.play, e.sub_play>>

\* "handle empty event before half-inning changes"; play - 1 wraps at 0
resynchronizes(e, exp) ==
    e.ty = 2 /\ exp = <<(e.play + U16 - 1) % U16, e.sub_play>>

\* self.expected = event.expect(self.expected)?
expect(s, e) ==
    IF in_sequence(e, s.expected)
    THEN [s EXCEPT !.expected = next(e), !.ovf = @ \/ next_overflows(e)]
    ELSE LET s1 == [s EXCEPT !.ovf = @ \/ (e.ty = 2 /\ e.play = 0)]
         IN IF resynchronizes(e, s.expected)
            THEN [s1 EXCEPT !.expected = next(e), !.ovf = @ \/ next_overflows(e)]
            ELSE Fail(s1, "missing event")

----------------------------------------------------------------------------
(* State::push_inner *)

\* the pitcher data of the event fills in a placeholder starting pitcher
pitcher_data(s, e) ==
    LET one(st, side, is_defense, p, pname) ==
            IF p = None \/ pname = None THEN st
            ELSE LET replaced == replaces_placeholder(st.game[side], p)
                     st1 == [st EXCEPT !.game[side] =
                                replace_placeholder_pitcher(@, p, pname)]
                     st2 == IF replaced /\ is_defense
                            THEN [st1 EXCEPT !.on_base =
                                     [i \in DOMAIN @ |->
                                         IF @[i].pitcher = Nil
                                         THEN [@[i] EXCEPT !.pitcher = p] ELSE @[i]]]
                            ELSE st1
                 IN [st2 EXCEPT !.game[side].player_names = NameOrInsert(@, p, pname)]
    IN IF ~Ok(s) THEN s
       ELSE one(one(s, "away", ~s.top_of_inning, e.away_pitcher, e.away_pitcher_name),
                "home", s.top_of_inning, e.home_pitcher, e.home_pitcher_name)

\* the kinds of the dispatch table that change nothing
Cosmetic == {1, 20, 23, 24, 28, 46, 47, 54, 73, 84, 117, 118, 119, 125, 137,
             209, 214, 215, 216, 223, 252, 262, 263, 264, 265}

\* every kind `match event.ty` has an arm for
DispatchTable == Cosmetic \cup {0, 2, 3, 4, 5, 6, 7, 8, 9, 10, 11, 12, 13, 14, 15,
                                41, 62, 106, 107, 146, 147, 113, 114, 116, 130,
                                131, 132, 193, 261}

checkdesc(s, e, descs) ==
    IF Ok(s) /\ e.desc \notin descs THEN Fail(s, "unexpected event description") ELSE s

\* an event of a kind without an arm is passed over
ignored_event_type(s, e) == s

\* the default arm: bail!("unexpected event type {}", event.ty)
unexpected_event_type(s, e) == Fail(s, "unexpected event type")

dispatch(s, e) ==
    IF ~Ok(s) THEN s
    ELSE CASE e.ty = 0 -> start_event(s, e)
           [] e.ty = 2 -> next_half_inning(s)
           [] e.ty = 3 -> pitcher_change(s, e)
           [] e.ty = 4 -> stolen_base(s, e)
           [] e.ty = 5 -> walk(s, e)
           [] e.ty = 6 ->
                IF e.desc # "strikes_out" THEN Fail(s, "unexpected event description")
                ELSE batter_out(record_pitcher_event(
                         record_batter_event(s, "strike_outs"), "struck_outs"))
           [] e.ty \in {7, 8} ->
                IF e.desc = "reaches_on_fielders_choice" THEN s
                ELSE fielded_out(
                         checkdesc(s, e, {"flyout", "ground_out", "out_at",
                                          "double_play"}), e)
           [] e.ty = 9 -> home_run(s, e)
           [] e.ty = 10 ->
                IF e.desc \in {"advances_on_sacrifice", "tags_up"} THEN sac(s, e)
                ELSE hit(s, e)
           [] e.ty = 11 -> game_over(s, e)
           [] e.ty = 12 -> plate_appearance(s, e)
           [] e.ty = 13 -> pitch(s, e, {"strike"}, "strikes_pitched")
           [] e.ty = 14 -> pitch(s, e, {"ball"}, "balls_pitched")
           [] e.ty = 15 -> pitch(s, e, {"foul_ball"}, "strikes_pitched")
           [] e.ty = 41 -> feedback(s, e)
           [] e.ty = 62 ->
                LET s1 == checkdesc(s, e, {"swept"})
                IN IF Ok(s1) THEN [s1 EXCEPT !.on_base = <<>>] ELSE s1
           [] e.ty \in {106, 107, 146, 147} -> modification(s, e)
           [] e.ty = 113 -> checkdesc(s, e, {"swapped_in_feedback"})
           [] e.ty = 114 -> swap_within_team(s, e)
           [] e.ty = 116 -> incineration(s, e)
           [] e.ty \in {130, 131} -> reverb_lineup(s, e)
           [] e.ty = 132 -> checkdesc(s, e, {"rotation_shuffled"})
           [] e.ty = 193 -> [s EXCEPT !.game.kind = "Special"]
           [] e.ty = 261 -> pitch(s, e, {"double_strike"}, "strikes_pitched")
           [] e.ty \in Cosmetic -> s
           [] OTHER -> unexpected_event_type(s, e)

\* events are dispatched whether the game is over or not
unguarded(s, e) == s

\* the kind-11 / game-over guard before the dispatch
game_over_guard(s, e) ==
    IF ~Ok(s) THEN s
    ELSE IF /\ is_game_over(s)
            /\ ~(e.ty = 107 /\ e.mod = "INHABITING")
            /\ ~(s.game_finished \/ e.ty = 11)
    THEN Fail(s, "game over mismatch")
    ELSE s

\* the snapshot of the event: bases_occupied zipped with base_runners
Known(e) ==
    LET ids == Get(e.base_runners)
        bases == Get(e.bases_occupied)
        n == IF Len(ids) < Len(bases) THEN Len(ids) ELSE Len(bases)
    IN [i \in 1..n |-> [base |-> bases[i], id |-> ids[i]]]

\* the entry of `known` (sorted by base, then reversed) a runner id finds first
KnownIndex(known, id) ==
    LET cand == {i \in DOMAIN known : known[i].id = id}
    IN IF cand = {} THEN 0
       ELSE CHOOSE i \in cand :
               \A j \in cand : known[j].base < known[i].base
                               \/ (known[j].base = known[i].base /\ i <= j)

\* the runner list is taken as derived
Unreconciled(s, known, i) == s

RECURSIVE Reconcile(_, _, _)
\* the loop over on_base from runner i on, with the entries of known left
Reconcile(s, known, i) ==
    IF ~Ok(s) THEN s
    ELSE IF i > Len(s.on_base)
    THEN (IF known = <<>> THEN s ELSE Fail(s, "baserunners not known to us"))
    ELSE LET k == KnownIndex(known, s.on_base[i].id)
         IN IF k = 0 THEN Fail(s, "baserunner missing from event")
            ELSE IF known[k].base < s.on_base[i].base
            THEN Fail(s, "baserunner on a lower base than its minimum")
            ELSE Reconcile([s EXCEPT !.on_base[i].base = known[k].base],
                           RemoveAt(known, k), i + 1)

\* the batter of the group keeps the credit for runs to come
keep_rbi_credit(s) == [s EXCEPT !.last_fielded_out = None]

\* self.last_fielded_out = None; self.rbi_credit = None
clear_credits(s) == [s EXCEPT !.last_fielded_out = None, !.rbi_credit = None]

\* the block push_inner runs after the last event of a sibling group
end_of_play(s, e) ==
    LET s1 == clear_credits(s)
        mismatch(side, p) ==
            p # None /\ TopOf(s1.game[side].pitchers) # p
        s2 == IF mismatch("away", e.away_pitcher) \/ mismatch("home", e.home_pitcher)
              THEN Fail(s1, "pitcher mismatch") ELSE s1
        s3 == IF ~Ok(s2) \/ s2.half_inning_outs >= 3 THEN s2
              ELSE IF \E i \in DOMAIN s2.on_base : s2.on_base[i].base >= 3
              THEN Fail(s2, "baserunner should have scored")
              ELSE IF e.base_runners = Absent \/ e.bases_occupied = Absent THEN s2
              ELSE Reconcile(s2, Known(e), 1)
    IN IF ~Ok(s3) THEN s3
       ELSE [s3 EXCEPT
               !.game[OffSide(s3)].crisp =
                   @ \cup {s3.on_base[i].id : i \in
                             {j \in DOMAIN s3.on_base :
                                 s3.on_base[j].base > 0 /\ s3.on_base[j].id \in s3.mods}},
               !.last_runs_cmp = runs_cmp(s3),
               !.on_base_start_of_play = s3.on_base]

\* usize::from(sub_play) == sibling_ids.len() - 1; the subtraction wraps at 0
is_last_sibling(e) == e.nsib > 0 /\ e.sub_play = e.nsib - 1

\* what follows the dispatch: sibling_ids.len() - 1 is computed, and the
\* last event of a sibling group ends the play
after_dispatch(s, e) ==
    IF ~Ok(s) THEN s
    ELSE IF is_last_sibling(e)
    THEN end_of_play([s EXCEPT !.ovf = @ \/ e.nsib = 0], e)
    ELSE [s EXCEPT !.ovf = @ \/ e.nsib = 0]

push_inner(s, e) ==
    IF e.id = "skipped" THEN s
    ELSE after_dispatch(
             dispatch(pitcher_data(game_over_guard(expect(s, e), e), e), e), e)

----------------------------------------------------------------------------
(* State::finish *)

\* the retain calls that drop all-zero players and the references to them
retain_players(team) ==
    LET stats == Restrict(team.stats,
                          {id \in DOMAIN team.stats : team.stats[id] # DefaultStats})
        kept(q) == SelectSeq(q, LAMBDA id : id \in DOMAIN stats)
        lineup == [i \in DOMAIN team.lineup |-> kept(team.lineup[i])]
    IN [team EXCEPT
          !.stats = stats,
          !.player_names = SelectSeq(@, LAMBDA en : en.id \in DOMAIN stats),
          !.lineup = SelectSeq(lineup, LAMBDA position : position # <<>>),
          !.pitchers = kept(@)]

\* .skip(1).rev().max_by_key(outs_recorded).unwrap_or_default(): of the
\* relievers with the most outs, the one who entered first
longest_reliever(team) ==
    LET outs(i) == StatsOf(team.stats, team.pitchers[i]).outs_recorded
        relievers == {i \in DOMAIN team.pitchers : i > 1}
    IN IF relievers = {} THEN Nil
       ELSE team.pitchers[CHOOSE i \in relievers :
                             \A j \in relievers :
                                 outs(j) < outs(i) \/ (outs(j) = outs(i) /\ i <= j)]

\* the pitcher of record once the placeholder left by a short start is resolved
resolve_pitcher_of_record(team) ==
    IF team.pitcher_of_record # Nil THEN team
    ELSE IF team.won
    THEN [team EXCEPT !.pitcher_of_record = longest_reliever(team)]
    ELSE [team EXCEPT !.pitcher_of_record =
                         IF team.pitchers = <<>> THEN Nil ELSE team.pitchers[1]]

\* wins = 1 or losses = 1 for the pitcher of record
decide(team) ==
    LET por == team.pitcher_of_record
        stats == Entry(team.stats, por)
    IN [team EXCEPT !.stats =
          IF team.won THEN [stats EXCEPT ![por].wins = 1]
          ELSE [stats EXCEPT ![por].losses = 1]]

\* one out is enough for a save in any situation
SaveOutsAny(situation) == 1

\* the outs a finishing pitcher needs for the save, by the situation at entry
SaveOuts(situation) ==
    CASE situation = "TyingRun" -> 1
      [] situation = "LeadThreeOrLess" -> 3
      [] OTHER -> 9

\* the save of the finishing pitcher of the winning team
credit_save(team, situation) ==
    LET finishing_pitcher == TopOf(team.pitchers)
        stats == Entry(team.stats, finishing_pitcher)
    IN IF ~team.won THEN team
       ELSE IF team.pitcher_of_record = finishing_pitcher THEN team
       ELSE IF Le32(SaveOuts(situation), stats[finishing_pitcher].outs_recorded)
       THEN [team EXCEPT !.saving_pitcher = finishing_pitcher,
                         !.stats = [stats EXCEPT ![finishing_pitcher].saves = 1]]
       ELSE [team EXCEPT !.stats = stats]

\* the sum of outs_recorded over the team
outs_pitched(team) ==
    SumOver([id \in DOMAIN team.stats |-> team.stats[id].outs_recorded],
            DOMAIN team.stats)

\* games_batted and games_pitched of everyone left in stats
appearances(team) ==
    [team EXCEPT !.stats =
        [id \in DOMAIN @ |->
            LET st == @[id]
                b == IF is_batting(st)
                     THEN [st EXCEPT !.games_batted = Inc32(@)] ELSE st
            IN IF is_pitching(st)
               THEN [b EXCEPT !.games_pitched = Inc32(@)] ELSE b]]

\* a finishing pitcher recorded the last out of an inning only partly
whole_innings_of_finisher(team) ==
    StatsOf(team.stats, TopOf(team.pitchers)).outs_recorded % 3 = 0

\* ensure!(sum of outs_recorded % 3 == 0)
whole_innings(team) == outs_pitched(team) % 3 = 0

\* the placeholder is looked for among the names only
placeholder_in_names(team) == HasName(team.player_names, Nil)

\* !team.stats.contains_key(&Uuid::default()), negated
placeholder_in_stats(team) == Nil \in DOMAIN team.stats

\* one pass of the loop over the teams: the team, and the error or the
\* panic (unwrap of an empty pitcher stack) that ends it
finish_team(team, situation) ==
    LET t1 == retain_players(team)
        t2 == resolve_pitcher_of_record(t1)
        t3 == decide(t2)
        t4 == credit_save(t3, situation)
        stop(tm, msg) == [team |-> tm, err |-> msg, panic |-> FALSE]
    IN IF Nil \in Range(t1.pitchers)
       THEN stop(t1, "placeholder pitcher ID found")
       ELSE IF \E i \in DOMAIN positions(t1) :
                  \E id \in Range(positions(t1)[i]) : ~HasName(t1.player_names, id)
       THEN stop(t1, "name missing")
       ELSE IF t2.pitcher_of_record = Nil
       THEN stop(t2, "placeholder pitcher ID listed as winning or losing pitcher")
       ELSE IF t3.won /\ t3.pitchers = <<>>
       THEN [team |-> t3, err |-> "", panic |-> TRUE]
       ELSE IF ~whole_innings(t4)
       THEN stop(t4, "fractional total innings pitched")
       ELSE IF placeholder_in_stats(t4)
       THEN stop(t4, "placeholder pitcher ID present in stats")
       ELSE IF HasName(t4.player_names, Nil)
       THEN stop(t4, "placeholder pitcher ID present in player names")
       ELSE stop(appearances(t4), "")

\* the finished flag is never consulted
finished_unchecked(s) == TRUE

\* ensure!(self.game_finished)
is_finished(s) == s.game_finished

\* at most one team may have won
no_two_winners(g) == ~(g.away.won /\ g.home.won)

\* ensure!(game.away.won ^ game.home.won)
one_winner(g) == g.away.won # g.home.won

\* State::finish: the Game, or the first error
\* the loop over the two teams, given what a pass over each gives: the
\* first error or panic ends it
finish_teams(s, away, home) ==
    IF away.err # "" \/ away.panic
    THEN [game |-> [s.game EXCEPT !.away = away.team],
          err |-> away.err, panic |-> away.panic]
    ELSE [game |-> [s.game EXCEPT !.away = away.team, !.home = home.team],
          err |-> home.err, panic |-> home.panic]

finish(s) ==
    IF ~is_finished(s)
    THEN [game |-> s.game, err |-> "game incomplete", panic |-> FALSE]
    ELSE IF ~Ok(ensure_pitchers_known(s))
    THEN [game |-> s.game, err |-> "initial pitchers are unknown", panic |-> FALSE]
    ELSE IF ~one_winner(s.game)
    THEN [game |-> s.game, err |-> "winner mismatch", panic |-> FALSE]
    ELSE finish_teams(s, finish_team(s.game.away, s.save_situation[1]),
                         finish_team(s.game.home, s.save_situation[2]))

----------------------------------------------------------------------------
(* Feed events (GameEvent) *)

\* an event of this kind and description class, everything optional absent
Ev(ty, desc) ==
    [id |-> "normal", play |-> 0, sub_play |-> 0, nsib |-> 1, ty |-> ty,
     desc |-> desc, name |-> "", player_tags |-> <<>>, team_tags |-> <<>>,
     away_pitcher |-> None, away_pitcher_name |-> None,
     home_pitcher |-> None, home_pitcher_name |-> None,
     base_runners |-> Absent, bases_occupied |-> Absent,
     winner |-> None, mod |-> None, weather |-> Absent, day |-> 0,
     extra |-> [tag |-> "None"], rosters |-> <<Absent, Absent>>]

\* the event at this place of the feed, last of its sibling group or not
At(e, place, is_last) ==
    [e EXCEPT !.play = place[1], !.sub_play = place[2],
              !.nsib = place[2] + (IF is_last THEN 1 ELSE 2)]

\* before the first push there is no last event
NoEvent == [Ev(0, "") EXCEPT !.id = "none"]

----------------------------------------------------------------------------
(* State::new, and the replay of a feed as process_game drives it: events *)
(* are pushed in order, the first Err ends the replay, and finish() is    *)
(* called once, on a State no push has failed on.                         *)

\* the two entries of HARDCODED_PITCHERS for a game, or their Default
DefaultPitchers == <<[id |-> Nil, name |-> ""], [id |-> Nil, name |-> ""]>>
HardcodedPitchers == <<[id |-> "HA", name |-> "Ha"], [id |-> "HH", name |-> "Hh"]>>

\* the team State::new builds from one entry of the pitcher data
NewTeam(p) ==
    [DefaultTeam EXCEPT !.pitchers = <<p.id>>,
                        !.player_names = <<[id |-> p.id, name |-> p.name]>>,
                        !.stats = Insert(EmptyMap, p.id, FreshStarter)]

\* State::new(season, id) for a game whose pitcher data is `data`
New(data) ==
    /\ game = [away |-> NewTeam(data[1]), home |-> NewTeam(data[2]),
               kind |-> "Regular", day |-> 0, weather |-> 0, season |-> "gamma9"]
    /\ game_started = FALSE
    /\ game_finished = FALSE
    /\ inning = 1
    /\ top_of_inning = TRUE
    /\ last_runs_cmp = "Equal"
    /\ half_inning_outs = 0
    /\ at_bat = None
    /\ last_fielded_out = None
    /\ rbi_credit = None
    /\ save_situation = <<None, None>>
    /\ on_base = <<>>
    /\ on_base_start_of_play = <<>>
    /\ expected = <<0, 0>>
    /\ mods = {}
    /\ phase = "running"
    /\ outcome = ""
    /\ last = NoEvent
    /\ npushed = 0
    /\ seen_over = FALSE
    /\ wrapped = FALSE

\* the games to process
Games == {"g1", "g2"}

\* no row in any table
EmptyStore ==
    [game_debug |-> [g \in Games |-> Absent],
     game_stats |-> [g \in Games |-> Absent],
     player_stats |-> {}]

\* process_game(g) before its call, and once its State is created
Waiting ==
    [pc |-> "waiting", feed |-> <<>>, debug_log |-> <<>>, stats |-> Absent,
     rows |-> <<>>, head |-> <<>>]
Replaying == [Waiting EXCEPT !.pc = "replay"]

\* nothing is being computed and the resolver has loaded nothing
NoCalc ==
    [op |-> "none", a |-> 0, b |-> 1, c |-> 0, d |-> 1,
     out |-> [kind |-> "none", numer |-> 0, denom |-> 0]]
NoLoads ==
    [tree |-> {}, versions |-> <<{}, {}>>, loads |-> 0, id |-> 0, at |-> 0,
     cached |-> FALSE, out |-> [kind |-> "idle", data |-> <<>>]]
Elsewhere == calc = NoCalc /\ chronicler = NoLoads

\* the first game is being replayed, nothing is stored
FirstGame ==
    /\ Elsewhere
    /\ store = EmptyStore
    /\ job = [g \in Games |-> IF g = "g1" THEN Replaying ELSE Waiting]

InitDefault == New(DefaultPitchers) /\ FirstGame

Init == (New(DefaultPitchers) \/ New(HardcodedPitchers)) /\ FirstGame

\* the State after a push that ran to its return (Ok or Err)
Returned(n, e) ==
    /\ game' = n.game
    /\ game_started' = n.game_started
    /\ game_finished' = n.game_finished
    /\ inning' = n.inning
    /\ top_of_inning' = n.top_of_inning
    /\ last_runs_cmp' = n.last_runs_cmp
    /\ half_inning_outs' = n.half_inning_outs
    /\ at_bat' = n.at_bat
    /\ last_fielded_out' = n.last_fielded_out
    /\ rbi_credit' = n.rbi_credit
    /\ save_situation' = n.save_situation
    /\ on_base' = n.on_base
    /\ on_base_start_of_play' = n.on_base_start_of_play
    /\ expected' = n.expected
    /\ mods' = n.mods
    /\ phase' = IF Ok(n) THEN "running" ELSE "failed"
    /\ outcome' = n.err
    /\ seen_over' = (seen_over \/ (Ok(n) /\ e.ty = 11))

\* a build with overflow checks stops at the first unchecked operation that
\* overflows; no such build has let one wrap before
Panicked ==
    /\ ~wrapped
    /\ phase' = "panicked"
    /\ outcome' = "arithmetic overflow"
    /\ UNCHANGED <<game, game_started, game_finished, inning, top_of_inning,
                   last_runs_cmp, half_inning_outs, at_bat, last_fielded_out,
                   rbi_credit, save_situation, on_base, on_base_start_of_play,
                   expected, mods, seen_over, wrapped>>

\* the push ends in the State n, or in a panic if an unchecked operation
\* overflowed on the way and the build checks for it
Ended(n, e) ==
    IF n.ovf
    THEN Panicked \/ (Returned(n, e) /\ wrapped' = TRUE)
    ELSE Returned(n, e) /\ UNCHANGED wrapped

\* state.push(&event)
Pushed(e) ==
    /\ phase = "running"
    /\ last' = e
    /\ npushed' = npushed + 1
    /\ \E it \in IterOrders : Ended(push_inner([Cur EXCEPT !.iter = it], e), e)

\* state.push(&event) of the replay loop, the store aside
Push(e) == Pushed(e) /\ UNCHANGED <<store, job, calc, chronicler>>

\* state.finish() after the loop
FinishEndedIn(r) ==
    /\ phase' = IF r.panic THEN "finish_panicked"
                ELSE IF r.err = "" THEN "finished" ELSE "finish_failed"
    /\ outcome' = IF r.panic THEN "unwrap on None" ELSE r.err
    /\ game' = IF r.err = "" /\ ~r.panic THEN r.game ELSE game

Finished ==
    /\ phase = "running"
    /\ FinishEndedIn(finish(Cur))
    /\ UNCHANGED <<game_started, game_finished, inning, top_of_inning,
                   last_runs_cmp, half_inning_outs, at_bat, last_fielded_out,
                   rbi_credit, save_situation, on_base, on_base_start_of_play,
                   expected, mods, last, npushed, seen_over, wrapped>>

\* state.finish() after the loop, the store aside
Finish == Finished /\ UNCHANGED <<store, job, calc, chronicler>>

----------------------------------------------------------------------------
(* Feed alphabets *)

\* a kind no arm of the dispatch table matches
UnknownKind == CHOOSE k \in 0..300 : k \notin DispatchTable

----------------------------------------------------------------------------
(* Sequencing: feeds whose events carry any (play, sub_play) and any      *)
(* number of siblings, in the order the feed gives them                   *)

MaxSeq == 3
MaxPlay == 2
MaxSiblings == 2

\* half-inning markers, balls and events of an unknown kind, anywhere
SeqNormal ==
    {[Ev(ty, IF ty = 14 THEN "ball" ELSE "") EXCEPT
         !.play = p, !.sub_play = sp, !.nsib = n] :
       ty \in {2, 14, UnknownKind}, p \in 0..MaxPlay, sp \in 0..(MaxSiblings - 1),
       n \in 0..MaxSiblings}

\* events that carry the id push_inner skips
SeqSkipped ==
    {[Ev(ty, "") EXCEPT !.id = "skipped", !.play = p] :
       ty \in {2, UnknownKind}, p \in {0, MaxPlay}}

SeqEvents == SeqNormal \cup SeqSkipped

PushSeq == npushed < MaxSeq /\ \E e \in SeqEvents : Push(e)

NextSeq == PushSeq

SpecSeq == InitDefault /\ [][NextSeq]_vars

----------------------------------------------------------------------------
(* Gameplay feeds: every event sits at the expected place of the feed     *)

\* "<p> batting for the ..."
Bat(p) == [Ev(12, "batting") EXCEPT !.player_tags = <<p>>, !.name = p]

\* "<r> tags up and scores!"
Sac(r) == [Ev(10, "tags_up") EXCEPT !.player_tags = <<r>>, !.name = r]

\* "<r> steals second base!", the runner tagged as t
Steal(r, t) == [Ev(4, "steals") EXCEPT !.player_tags = <<t>>, !.name = r]

\* "<p> is now pitching for the ..."
NowPitching(p) == [Ev(3, "now_pitching") EXCEPT !.player_tags = <<p>>, !.name = p]

\* the game-over event naming this winner
Over(w) == [Ev(11, "") EXCEPT !.winner = w]

\* a ball, or an event of an unknown kind, that carries both pitchers
WithPitchers(e) ==
    [e EXCEPT !.away_pitcher = "PA", !.away_pitcher_name = "Pa",
              !.home_pitcher = "PH", !.home_pitcher_name = "Ph"]

\* the start event, with the rosters the resolver has for the two teams
Start ==
    [Ev(0, "") EXCEPT
        !.team_tags = <<"TA", "TH">>, !.weather = Some(1),
        !.rosters = <<Some([nickname |-> "Aways", lineup |-> <<"A">>]),
                      Some([nickname |-> "Homes", lineup |-> <<"B">>])>>]

\* runs before and after the first half-inning marker
MaxRuns == 4

RunsEvents ==
    {At(e, expected, TRUE) :
       e \in {Bat("A"), Ev(9, "home_run"), Ev(10, "double"), Ev(2, "")}}

PushRuns == npushed < MaxRuns /\ \E e \in RunsEvents : Push(e)

NextRuns == PushRuns \/ Finish

SpecRuns == InitDefault /\ [][NextRuns]_vars

\* fielded outs followed by one or two sacrifice advances
MaxSac == 8

SacEvents ==
    {At(e, expected, TRUE) :
       e \in {Bat("A"), Bat("B"), Ev(10, "double"), Ev(5, "walk"), Sac("B")}}
    \cup {At(e, expected, FALSE) : e \in {Ev(7, "flyout"), Sac("A")}}

PushSac == npushed < MaxSac /\ \E e \in SacEvents : Push(e)

NextSac == PushSac

SpecSac == InitDefault /\ [][NextSac]_vars

\* short games up to finish()
MaxFinish == 5

FinishEvents ==
    {At(e, expected, TRUE) :
       e \in {NowPitching("RH"), WithPitchers(Ev(14, "ball")),
              Steal("X", "X"), Steal("X", Nil),
              Over("TH"), Over("TZ"), Over(Nil), Over(None)}
             \cup (IF expected = <<0, 0>> THEN {Start} ELSE {})}

PushFinish == npushed < MaxFinish /\ \E e \in FinishEvents : Push(e)

NextFinish == PushFinish \/ Finish

SpecFinish == Init /\ [][NextFinish]_vars

\* games with outs, up to finish()
MaxOuts == 9

OutsEvents ==
    {At(e, expected, TRUE) :
       e \in {NowPitching("RH"), Bat("A"), Ev(6, "strikes_out"), Over("TH")}
             \cup (IF expected = <<0, 0>> THEN {Start} ELSE {})}

PushOuts == npushed < MaxOuts /\ \E e \in OutsEvents : Push(e)

NextOuts == PushOuts \/ Finish

SpecOuts == Init /\ [][NextOuts]_vars

\* feeds with events of an unknown kind
MaxUnknown == 4

UnknownEvents ==
    {At(e, expected, TRUE) :
       e \in {Bat("A"), Ev(5, "walk"), Ev(14, "ball"), Ev(UnknownKind, ""),
              WithPitchers(Ev(UnknownKind, "")),
              [Ev(UnknownKind, "") EXCEPT !.id = "skipped"]}}
    \cup {At(Ev(UnknownKind, ""), <<expected[1] + 1, 0>>, TRUE)}

PushUnknown == npushed < MaxUnknown /\ \E e \in UnknownEvents : Push(e)

NextUnknown == PushUnknown

SpecUnknown == Init /\ [][NextUnknown]_vars

----------------------------------------------------------------------------
(* Sequencing *)

\* the pair the claim says follows an accepted event
ClaimedNext(e) ==
    IF e.sub_play + 1 = e.nsib THEN <<e.play + 1, 0>> ELSE <<e.play, e.sub_play + 1>>

\* the event is the expected one, or the kind-2 event one play ahead
ClaimedMatch(e, exp) ==
    \/ <<e.play, e.sub_play>> = exp
    \/ e.ty = 2 /\ e.play = exp[1] + 1 /\ e.sub_play = exp[2]

\* C1: push accepts an event only if its (play, sub_play) is the expected
\* pair (or it is the kind-2 event one play ahead), the expected pair then
\* becomes the event's successor pair, and every other event is rejected
\* with an error that leaves the expected pair unchanged.
C1_Sequencing ==
    [][npushed' = npushed + 1 =>
         /\ phase' = "running" =>
               ClaimedMatch(last', expected) /\ expected' = ClaimedNext(last')
         /\ ~ClaimedMatch(last', expected) =>
               phase' = "failed" /\ expected' = expected]_vars

----------------------------------------------------------------------------
(* finish() *)

\* finish() was called and has ended
FinishEnded == phase \in {"finished", "finish_failed", "finish_panicked"}

C3_ExactlyOneWinner ==
    /\ phase = "finished" => game.away.won # game.home.won
    /\ FinishEnded /\ game.away.won = game.home.won =>
          /\ phase = "finish_failed"
          /\ game_finished /\ Ok(ensure_pitchers_known(Cur)) =>
                outcome = "winner mismatch"

\* a Game returned for a game in which no run was credited
C3_Witness ==
    /\ phase = "finished"
    /\ game.home.won /\ ~game.away.won
    /\ runs(game.away) = 0 /\ runs(game.home) = 0

\* C5: in a returned Game the placeholder id is in no stats map, name map,
\* pitcher stack, pitcher_of_record or lineup position.
C5_NoPlaceholder ==
    phase = "finished" =>
       \A side \in {"away", "home"} :
          LET team == game[side]
          IN /\ Nil \notin DOMAIN team.stats
             /\ ~HasName(team.player_names, Nil)
             /\ Nil \notin Range(team.pitchers)
             /\ team.pitcher_of_record # Nil
             /\ \A i \in DOMAIN team.lineup : Nil \notin Range(team.lineup[i])

\* a Game returned for a game State::new gave placeholder pitchers
C5_Witness ==
    /\ phase = "finished"
    /\ game.away.pitchers[1] = "PA"
    /\ game.home.pitchers[1] = "PH"

\* C9: in a returned Game every key of a team's stats map is a key of that
\* team's player_names map.
C9_StatsHaveNames ==
    phase = "finished" =>
       \A side \in {"away", "home"} :
          DOMAIN game[side].stats \subseteq NameIds(game[side].player_names)

\* C4: in a returned Game each team's outs_recorded sum to a multiple of 3;
\* a team whose outs do not makes finish() fail, and 'fractional total
\* innings pitched' is the error of nothing else.
C4_WholeInnings ==
    /\ phase = "finished" =>
          \A side \in {"away", "home"} : outs_pitched(game[side]) % 3 = 0
    /\ FinishEnded /\ (\E side \in {"away", "home"} :
                          outs_pitched(game[side]) % 3 # 0) =>
          phase = "finish_failed"
    /\ phase = "finish_failed" /\ outcome = "fractional total innings pitched" =>
          \E side \in {"away", "home"} : outs_pitched(game[side]) % 3 # 0

\* a Game returned after a reliever pitched a whole inning
C4_Witness ==
    /\ phase = "finished"
    /\ outs_pitched(game.home) = 3
    /\ game.home.stats["RH"].outs_recorded = 3

----------------------------------------------------------------------------
(* Counters after accepted events *)

\* the events pushed so far were all accepted, or a Game was returned
Accepted == phase \in {"running", "finished"}

\* the sum of the runs counters of a team's Stats
runs_scored(team) ==
    SumOver([id \in DOMAIN team.stats |-> team.stats[id].runs], DOMAIN team.stats)

\* C6: after any accepted sequence of events, and in the returned Game, each
\* team's inning_runs buckets sum to the sum of the runs counters of its
\* Stats (so no half-inning boundary has reset a bucket that held runs).
C6_RunsAddUp ==
    Accepted => \A side \in {"away", "home"} :
                   runs(game[side]) = runs_scored(game[side])

\* C7: after any accepted sequence of events every player's Stats have
\* at_bats_with_risp <= at_bats and hits_with_risp <= at_bats_with_risp.
C7_RispBounds ==
    Accepted =>
       \A side \in {"away", "home"} : \A id \in DOMAIN game[side].stats :
          LET st == game[side].stats[id]
          IN /\ Le32(st.at_bats_with_risp, st.at_bats)
             /\ Le32(st.hits_with_risp, st.at_bats_with_risp)

\* a + b + c <= total between u32 counters, each within 2^29 of 0 or of 2^32
SumLe32(a, b, c, total) ==
    LET high(x) == IF x < 0 THEN 1 ELSE 0
        carried == high(a) + high(b) + high(c) - high(total)
    IN IF carried = 0 THEN a + b + c <= total ELSE carried < 0

\* C8: after any accepted sequence of events every player's Stats have
\* plate_appearances >= at_bats + walks + sacrifices.
C8_PlateAppearances ==
    Accepted =>
       \A side \in {"away", "home"} : \A id \in DOMAIN game[side].stats :
          LET st == game[side].stats[id]
          IN SumLe32(st.at_bats, st.walks, st.sacrifices, st.plate_appearances)

----------------------------------------------------------------------------
(* Events of an unknown kind *)

\* this step pushes an event whose kind has no arm in the dispatch table
PushedUnknown == npushed' = npushed + 1 /\ last'.ty \notin DispatchTable

\* a team's total of one Stats counter
Total(team, f) ==
    SumOver([id \in DOMAIN team.stats |-> team.stats[id][f]], DOMAIN team.stats)

\* the runners on base, without the pitcher charged for each
Runners(q) == [i \in DOMAIN q |-> [id |-> q[i].id, base |-> q[i].base]]

\* C10 as claimed: push returns an error for every event of an unknown kind,
\* in every state, and the failing push modifies no Stats counter, lineup,
\* inning, outs or on_base list.
C10_UnknownKindFails ==
    [][PushedUnknown =>
         /\ phase' = "failed"
         /\ \A side \in {"away", "home"} :
               /\ game'[side].stats = game[side].stats
               /\ game'[side].lineup = game[side].lineup
         /\ inning' = inning
         /\ half_inning_outs' = half_inning_outs
         /\ on_base' = on_base]_vars

\* C10 as amended: push never accepts an event of an unknown kind, except one
\* that carries the skipped id, which it accepts without any change. It
\* returns an error (a build with overflow checks panics instead when the
\* event is in sequence and its next position passes 65535), and the push
\* modifies no lineup, inning, half, outs, no runner's id or base and no
\* team's total of any Stats counter (pitcher data on the event may still
\* fill in a placeholder starting pitcher).
C10_UnknownKindFailsUnlessSkipped ==
    [][PushedUnknown =>
         /\ last'.id = "skipped" =>
               /\ phase' = "running"
               /\ UNCHANGED <<game, inning, top_of_inning, half_inning_outs,
                              on_base, expected, at_bat>>
         /\ last'.id # "skipped" =>
               /\ \/ phase' = "failed"
                  \/ phase' = "panicked" /\ in_sequence(last', expected)
                                         /\ next_overflows(last')
               /\ \A side \in {"away", "home"} :
                     /\ game'[side].lineup = game[side].lineup
                     /\ \A f \in DOMAIN DefaultStats :
                           Total(game'[side], f) = Total(game[side], f)
               /\ inning' = inning
               /\ top_of_inning' = top_of_inning
               /\ half_inning_outs' = half_inning_outs
               /\ Runners(on_base') = Runners(on_base)]_vars

\* an event of an unknown kind, in sequence, has failed in the default arm
\* after its pitcher data replaced the placeholder pitcher of a runner
C10_Witness ==
    /\ phase = "failed"
    /\ last.ty \notin DispatchTable
    /\ outcome = "unexpected event type"
    /\ on_base # <<>>
    /\ game.home.pitchers[1] = "PH"

----------------------------------------------------------------------------
(* Determinism of the replay *)

\* two players of one team whose names agree, a walk, and a fielder's choice
\* that names the runner put out
MaxNamesakes == 5

NamesakeEvents ==
    {At(e, expected, TRUE) :
       e \in {Bat("A"), [Bat("B") EXCEPT !.name = "A"], Ev(5, "walk"),
              [Ev(7, "out_at") EXCEPT !.name = "A"], Sac("A"),
              [Sac("A") EXCEPT !.player_tags = <<>>]}}

PushNamesakes == npushed < MaxNamesakes /\ \E e \in NamesakeEvents : Push(e)

SpecNamesakes == InitDefault /\ [][PushNamesakes \/ Finish]_vars

\* what push makes of the current State and this event when the name map
\* iterates in this order
PushResult(it, e) ==
    [push_inner([Cur EXCEPT !.iter = it], e) EXCEPT !.iter = "forward"]

\* C11: the replay is deterministic: the State a push leaves, error included,
\* is the same whatever order a map iterates in, so that two States built
\* alike and fed the same events agree after every event and in finish().
C11_Deterministic ==
    [][npushed' = npushed + 1 =>
         \A it \in IterOrders : PushResult(it, last') = PushResult("forward", last')]_vars

----------------------------------------------------------------------------
(* process_game (src/src/game/mod.rs): the replay of one game and the       *)
(* storage steps that follow it.  Every storage step is one statement on    *)
(* the database and commits by itself; any of them can return an error,     *)
(* and the process can stop between two of them.  The replays of two games  *)
(* share nothing, their storage steps interleave.                           *)

\* the fields of State
engine == <<game, game_started, game_finished, inning, top_of_inning,
            last_runs_cmp, half_inning_outs, at_bat, last_fielded_out,
            rbi_credit, save_situation, on_base, on_base_start_of_play,
            expected, mods, phase, outcome, last, npushed, seen_over, wrapped>>

\* LogEntry::Ok { description, patch }
LogOk(e) == [ok |-> TRUE, description |-> Some(e), error |-> ""]

\* an entry that carries the error in the Ok variant
LogDescribed(description, error) ==
    [ok |-> TRUE, description |-> description, error |-> error]

\* LogEntry::Err { description, error }
LogErr(description, error) ==
    [ok |-> FALSE, description |-> description, error |-> error]

RECURSIVE SeqOf(_)
\* the keys of a map in the order the map iterates in
SeqOf(S) ==
    IF S = {} THEN <<>>
    ELSE <<CHOOSE x \in S : TRUE>> \o SeqOf(S \ {CHOOSE x \in S : TRUE})

\* for team in stats { for (player_id, player_stats) in team.stats { .. } }:
\* the keys (game_id, team_id, player_id) of the rows to insert
TeamRows(g, team) ==
    [i \in DOMAIN SeqOf(DOMAIN team.stats) |->
        <<g, team.id, SeqOf(DOMAIN team.stats)[i]>>]
PlayerRows(g, gm) == TeamRows(g, gm.away) \o TeamRows(g, gm.home)

\* let mut state = State::new(..) of the next call of process_game
Created(data) ==
    /\ game' = [away |-> NewTeam(data[1]), home |-> NewTeam(data[2]),
                kind |-> "Regular", day |-> 0, weather |-> 0, season |-> "gamma9"]
    /\ game_started' = FALSE
    /\ game_finished' = FALSE
    /\ inning' = 1
    /\ top_of_inning' = TRUE
    /\ last_runs_cmp' = "Equal"
    /\ half_inning_outs' = 0
    /\ at_bat' = None
    /\ last_fielded_out' = None
    /\ rbi_credit' = None
    /\ save_situation' = <<None, None>>
    /\ on_base' = <<>>
    /\ on_base_start_of_play' = <<>>
    /\ expected' = <<0, 0>>
    /\ mods' = {}
    /\ phase' = "running"
    /\ outcome' = ""
    /\ last' = NoEvent
    /\ npushed' = 0
    /\ seen_over' = FALSE
    /\ wrapped' = FALSE

\* process_game is called for the next game once the replay before it is over
StartGame(g) ==
    /\ job[g].pc = "waiting"
    /\ \A h \in Games : job[h].pc # "replay"
    /\ Created(HardcodedPitchers)
    /\ job' = [job EXCEPT ![g] = Replaying]
    /\ UNCHANGED <<store, calc, chronicler>>

\* one turn of `for event in feed`: the push, and the entry pushed on debug_log
LoggedPush(j, e) ==
    IF phase' = "running"
    THEN [j EXCEPT !.feed = Append(@, e), !.debug_log = Append(@, LogOk(e))]
    ELSE IF phase' = "failed"
    THEN [j EXCEPT !.feed = Append(@, e),
                   !.debug_log = Append(@, LogErr(Some(e), outcome')),
                   !.pc = "store_debug_log"]
    ELSE [j EXCEPT !.pc = "panicked"]

ReplayPush(g, e) ==
    /\ job[g].pc = "replay"
    /\ Pushed(e)
    /\ job' = [job EXCEPT ![g] = LoggedPush(@, e)]
    /\ UNCHANGED <<store, calc, chronicler>>

\* match state.finish() after the loop
LoggedFinish(g, j) ==
    IF phase' = "finished"
    THEN [j EXCEPT !.stats = Some(game'), !.rows = PlayerRows(g, game'),
                   !.pc = "store_debug_log"]
    ELSE IF phase' = "finish_failed"
    THEN [j EXCEPT !.debug_log = Append(@, LogErr(Absent, outcome')),
                   !.pc = "store_debug_log"]
    ELSE [j EXCEPT !.pc = "panicked"]

ReplayFinish(g) ==
    /\ job[g].pc = "replay"
    /\ Finished
    /\ job' = [job EXCEPT ![g] = LoggedFinish(g, @)]
    /\ UNCHANGED <<store, calc, chronicler>>

\* store_debug_log(db, id, debug_log).await?
store_debug_log(g) ==
    /\ job[g].pc = "store_debug_log"
    /\ store' = [store EXCEPT !.game_debug[g] = Some(job[g].debug_log)]
    /\ job' = [job EXCEPT ![g].pc =
                  IF job[g].rows = <<>> THEN "store_game_stats"
                  ELSE "store_player_stats"]
    /\ UNCHANGED <<engine, calc, chronicler>>

\* INSERT INTO player_stats .. ON CONFLICT .. DO UPDATE, for the next row
store_player_stats(g) ==
    /\ job[g].pc = "store_player_stats"
    /\ store' = [store EXCEPT !.player_stats = @ \cup {Head(job[g].rows)}]
    /\ job' = [job EXCEPT ![g].rows = Tail(@),
                          ![g].pc = IF Len(job[g].rows) = 1
                                    THEN "store_game_stats" ELSE @]
    /\ UNCHANGED <<engine, calc, chronicler>>

\* store_game_stats(db, row).await?: stats_json_zst is row.stats, NULL for None
store_game_stats(g) ==
    /\ job[g].pc = "store_game_stats"
    /\ store' = [store EXCEPT !.game_stats[g] = Some([stats |-> job[g].stats])]
    /\ job' = [job EXCEPT ![g].pc = "returned"]
    /\ UNCHANGED <<engine, calc, chronicler>>

\* the storage step at hand returns an error (the `?` returns it), or the
\* process stops before it
Stops(g) ==
    /\ job[g].pc \in {"store_debug_log", "store_player_stats", "store_game_stats"}
    /\ job' = [job EXCEPT ![g].pc = "stopped"]
    /\ UNCHANGED <<store, engine, calc, chronicler>>

\* feeds that start a game, change a pitcher, end the game or carry an
\* event of an unknown kind
MaxFeed == 3

StoredEvents ==
    {At(e, expected, TRUE) :
       e \in {NowPitching("RH"), Over("TH"), Ev(UnknownKind, "")}
             \cup (IF expected = <<0, 0>> THEN {Start} ELSE {})}

ProcessGame(g) ==
    \/ StartGame(g)
    \/ npushed < MaxFeed /\ \E e \in StoredEvents : ReplayPush(g, e)
    \/ ReplayFinish(g)
    \/ store_debug_log(g)
    \/ store_player_stats(g)
    \/ store_game_stats(g)
    \/ Stops(g)

InitStore == New(HardcodedPitchers) /\ FirstGame

NextStore == \E g \in Games : ProcessGame(g)

SpecStore == InitStore /\ [][NextStore]_vars

----------------------------------------------------------------------------
(* The commit of a game *)

\* the rows of player_stats stored for this game
RowsOf(g) == {r \in store.player_stats : r[1] = g}

\* the game record holds the stats of the game
HasStats(g) ==
    store.game_stats[g] # Absent /\ Get(store.game_stats[g]).stats # Absent

\* everything of the game is stored
Committed(g) ==
    /\ HasStats(g)
    /\ store.game_debug[g] # Absent
    /\ Range(PlayerRows(g, Get(Get(store.game_stats[g]).stats))) \subseteq RowsOf(g)

\* only the debug log, ending in its error, is stored (a game record without
\* stats does not count as a stats record)
FailedOnly(g) ==
    /\ store.game_debug[g] # Absent
    /\ Get(store.game_debug[g]) # <<>>
    /\ ~Get(store.game_debug[g])[Len(Get(store.game_debug[g]))].ok
    /\ ~HasStats(g)
    /\ RowsOf(g) = {}

\* nothing of the game is stored
Untouched(g) ==
    /\ store.game_debug[g] = Absent
    /\ store.game_stats[g] = Absent
    /\ RowsOf(g) = {}

\* C12: in every reachable state of the store each game is committed as a
\* whole (game record with stats, debug log, every per-player row), or only
\* its debug log with the error is stored, or nothing of it is stored yet.
C12_AtomicCommit ==
    \A g \in Games : Committed(g) \/ FailedOnly(g) \/ Untouched(g)

----------------------------------------------------------------------------
(* The debug log *)

\* the entries before the last are Ok; an Err entry ends the replay
OneErrLast(g) ==
    /\ \A i \in 1..(Len(job[g].debug_log) - 1) : job[g].debug_log[i].ok
    /\ (\E i \in DOMAIN job[g].debug_log : ~job[g].debug_log[i].ok)
          => job[g].pc # "replay"

\* the i-th entry describes the i-th event pushed; only the entry of a failed
\* finish has no description, and it follows an entry for every event
InFeedOrder(g) ==
    \A i \in DOMAIN job[g].debug_log :
       IF job[g].debug_log[i].description = Absent
       THEN ~job[g].debug_log[i].ok /\ i = Len(job[g].feed) + 1
       ELSE i <= Len(job[g].feed)
            /\ job[g].debug_log[i].description = Some(job[g].feed[i])

\* once past store_debug_log the stored log is the log of the replay
LogStored(g) ==
    job[g].pc \in {"store_player_stats", "store_game_stats", "returned"}
       => store.game_debug[g] = Some(job[g].debug_log)

\* what one step of the replay of g appends to the log, by how the push or
\* finish() ended
Logged(g) ==
    job[g].pc = "replay" /\ job'[g] # job[g] /\ phase' # "panicked" =>
       CASE phase' = "running" ->
               /\ job'[g].pc = "replay"
               /\ job'[g].debug_log = Append(job[g].debug_log,
                     [ok |-> TRUE, description |-> Some(last'), error |-> ""])
         [] phase' = "failed" ->
               /\ job'[g].pc = "store_debug_log"
               /\ job'[g].debug_log = Append(job[g].debug_log,
                     [ok |-> FALSE, description |-> Some(last'),
                      error |-> outcome'])
         [] phase' = "finished" ->
               /\ job'[g].pc = "store_debug_log"
               /\ job'[g].debug_log = job[g].debug_log
               /\ \A i \in DOMAIN job[g].debug_log : job[g].debug_log[i].ok
         [] phase' = "finish_failed" ->
               /\ job'[g].pc = "store_debug_log"
               /\ job'[g].debug_log = Append(job[g].debug_log,
                     [ok |-> FALSE, description |-> Absent, error |-> outcome'])

\* C13: the debug log of a game holds one Ok entry per successfully pushed
\* event, in feed order, and at most one Err entry, which is last; the Err
\* entry is there exactly when a push failed (it describes the event) or
\* finish() failed (it has no description); the log is stored on the success
\* path and on both failure paths.
C13_DebugLog ==
    /\ [](\A g \in Games : OneErrLast(g) /\ InFeedOrder(g) /\ LogStored(g))
    /\ [][\A g \in Games : Logged(g)]_vars

\* a game has returned with its log stored: two Ok entries, then the Err
\* entry of a failed finish()
C13_Witness ==
    \E g \in Games :
       /\ job[g].pc = "returned"
       /\ store.game_debug[g] = Some(job[g].debug_log)
       /\ Len(job[g].debug_log) = 3
       /\ job[g].debug_log[2].ok
       /\ ~job[g].debug_log[3].ok
       /\ job[g].debug_log[3].description = Absent

----------------------------------------------------------------------------
(* Feeds that start with a given head *)

\* process_game replays for the first game a feed that starts with `head`
FeedStartsWith(head) ==
    /\ Elsewhere
    /\ store = EmptyStore
    /\ job = [g \in Games |-> IF g = "g1" THEN [Replaying EXCEPT !.head = head]
                              ELSE Waiting]

\* the next event of the feed: the next of its head, then any of `events`
NextOf(events) ==
    IF npushed < Len(job["g1"].head)
    THEN {At(job["g1"].head[npushed + 1], expected, TRUE)}
    ELSE events

\* the events pushed after the head of the feed
pushed_after_head == npushed - Len(job["g1"].head)

RECURSIVE Times(_, _)
\* n repetitions of a piece of feed
Times(n, feed) == IF n = 0 THEN <<>> ELSE feed \o Times(n - 1, feed)

Strikeout == Ev(6, "strikes_out")
HomeRun == Ev(9, "home_run")
HalfInning == Ev(2, "")

\* the top of the second inning, the home team k runs ahead on solo home
\* runs by B, its starter with `outs` strikeouts of A
HomeLeads(k, outs) ==
    <<Start, HalfInning>> \o Times(outs, <<Bat("A"), Strikeout>>)
       \o <<HalfInning>> \o Times(k, <<Bat("B"), HomeRun>>) \o <<HalfInning>>

----------------------------------------------------------------------------
(* Saves *)

\* this pitcher enters and strikes A out `outs` times
Relief(p, outs) == <<NowPitching(p)>> \o Times(outs, <<Bat("A"), Strikeout>>)

\* feeds in which the home team is ahead and a reliever is in for a starter
\* who left early or after five innings, up to finish()
MaxSave == 5

SaveFeeds ==
    {HomeLeads(1, 0) \o Relief("RH", 2),
     HomeLeads(1, 0) \o Relief("RH", 3),
     HomeLeads(3, 0) \o Relief("RH", 3) \o Relief("R2", 2),
     HomeLeads(3, 0) \o Relief("RH", 4) \o Relief("R2", 2),
     HomeLeads(5, StarterOuts) \o Relief("RH", 5),
     HomeLeads(5, StarterOuts) \o Relief("RH", 7)}

SaveEvents ==
    {At(e, expected, TRUE) :
       e \in {NowPitching("RH"), NowPitching("R2"), Bat("A"), Strikeout,
              Ev(5, "walk"), Over("TH"), Over("TA")}}

InitSave == New(HardcodedPitchers) /\ \E head \in SaveFeeds : FeedStartsWith(head)

PushSave == pushed_after_head < MaxSave /\ \E e \in NextOf(SaveEvents) : Push(e)

NextSave == PushSave \/ Finish

SpecSave == InitSave /\ [][NextSave]_vars

\* the save tag of a team at the end of the game
SaveTag(side) == save_situation[IF side = "away" THEN 1 ELSE 2]

\* the finishing pitcher of the winning team, not its pitcher of record, with
\* the outs the tag asks for
EarnsSave(side, p) ==
    /\ game[side].won
    /\ game[side].pitchers # <<>>
    /\ p = game[side].pitchers[Len(game[side].pitchers)]
    /\ p # game[side].pitcher_of_record
    /\ p \in DOMAIN game[side].stats
    /\ \/ SaveTag(side) = "TyingRun" /\ game[side].stats[p].outs_recorded >= 1
       \/ SaveTag(side) = "LeadThreeOrLess" /\ game[side].stats[p].outs_recorded >= 3
       \/ SaveTag(side) = None /\ game[side].stats[p].outs_recorded >= 9

\* the players with a save in the committed Game
Savers(side) ==
    {p \in DOMAIN game[side].stats : game[side].stats[p].saves # 0}

\* C14: in a Game returned by finish() a pitcher has saves = 1 and is the
\* saving_pitcher iff they are the last pitcher on the winning team's stack,
\* are not its pitcher_of_record and have at least 1 out with tag TyingRun,
\* 3 with LeadThreeOrLess, 9 with no tag; nobody else has a save, the losing
\* team has none and the game at most one.
C14_Saves ==
    phase = "finished" =>
       /\ \A side \in {"away", "home"} :
             /\ \A p \in DOMAIN game[side].stats \cup Range(game[side].pitchers) :
                   EarnsSave(side, p)
                      <=> /\ p \in DOMAIN game[side].stats
                          /\ game[side].stats[p].saves = 1
                          /\ game[side].saving_pitcher = p
             /\ \A p \in Savers(side) : EarnsSave(side, p)
             /\ game[side].saving_pitcher # None
                   => EarnsSave(side, game[side].saving_pitcher)
             /\ ~game[side].won
                   => Savers(side) = {} /\ game[side].saving_pitcher = None
       /\ Cardinality(Savers("away") \cup Savers("home")) <= 1

\* a reliever who entered without a tag and recorded exactly 9 outs has the save
C14_Witness ==
    /\ phase = "finished"
    /\ SaveTag("home") = None
    /\ game.home.saving_pitcher = "RH"
    /\ game.home.stats["RH"].outs_recorded = 9
    /\ game.home.stats["RH"].saves = 1

----------------------------------------------------------------------------
(* Starters and the win *)

\* feeds in which the home starter has 12 or 14 outs after the top of the
\* first, then pitching changes (also back to the starter), outs and the end
MaxStarter == 5

StarterFeeds ==
    {<<Start, HalfInning>> \o Times(outs, <<Bat("A"), Strikeout>>) :
        outs \in {StarterOuts - 3, StarterOuts - 1}}

StarterEvents ==
    {At(e, expected, TRUE) :
       e \in {NowPitching("RH"), NowPitching("HH"), Bat("A"), Strikeout,
              Over("TH")}}

InitStarter ==
    New(HardcodedPitchers) /\ \E head \in StarterFeeds : FeedStartsWith(head)

PushStarter ==
    pushed_after_head < MaxStarter /\ \E e \in NextOf(StarterEvents) : Push(e)

NextStarter == PushStarter \/ Finish

SpecStarter == InitStarter /\ [][NextStarter]_vars

\* the starter of this team leaves in this step, with this many outs recorded
StarterLeaves(side, outs) ==
    /\ Len(game[side].pitchers) = 1
    /\ Len(game'[side].pitchers) = 2
    /\ StatsOf(game[side].stats, game[side].pitchers[1]).outs_recorded = outs

\* a committed Game gives no win to a starter who was replaced and has fewer
\* than 15 outs recorded in all
ShortStartNoWin ==
    phase = "finished" =>
       \A side \in {"away", "home"} :
          (/\ Len(game[side].pitchers) >= 2
           /\ game[side].stats[game[side].pitchers[1]].outs_recorded < 15)
             => game[side].stats[game[side].pitchers[1]].wins = 0

\* C15: a starter replaced (kind 3) with fewer than 15 outs recorded is never
\* credited with the win in the committed Game, whatever events follow; a
\* starter replaced with exactly 15 outs recorded keeps the
\* pitcher_of_record candidacy they held.
C15_StarterFiveInnings ==
    /\ []ShortStartNoWin
    /\ [][\A side \in {"away", "home"} :
             StarterLeaves(side, 15) =>
                game'[side].pitcher_of_record = game[side].pitcher_of_record]_vars

\* what the pitching change does to the candidacy of a starter who leaves
\* with exactly 15 outs, and with 14
KeepsCandidacyAtFifteen ==
    [][\A side \in {"away", "home"} :
          /\ StarterLeaves(side, 15) =>
                game'[side].pitcher_of_record = game[side].pitcher_of_record
          /\ StarterLeaves(side, 14) => game'[side].pitcher_of_record = Nil]_vars

----------------------------------------------------------------------------
(* Earned runs *)

\* walks, singles, a fielder's choice, a pitching change, runners who score
\* and home runs, in the top of the first
MaxCharge == 7

ChargeEvents ==
    {At(e, expected, TRUE) :
       e \in {Bat("A"), Bat("B"), Ev(5, "walk"), Ev(10, "single"),
              NowPitching("RH"), HomeRun,
              [Ev(7, "out_at") EXCEPT !.name = "A"],
              [Ev(10, "scores") EXCEPT !.name = "B", !.player_tags = <<"B">>]}}

InitCharge == New(HardcodedPitchers) /\ FirstGame

PushCharge == npushed < MaxCharge /\ \E e \in ChargeEvents : Push(e)

NextCharge == PushCharge

SpecCharge == InitCharge /\ [][NextCharge]_vars

\* push has accepted the event last'
PushAccepted == npushed' = npushed + 1 /\ phase' = "running"

\* the defense's pitcher at the event last'
PitcherAtEvent ==
    game'[DefSide(Cur)].pitchers[Len(game'[DefSide(Cur)].pitchers)]

\* the runners on base as the event last' finds them; a home run puts the
\* batter among them
OnBaseAtEvent ==
    IF last'.ty = 9
    THEN Append(on_base, [id |-> at_bat, pitcher |-> PitcherAtEvent, base |-> 3])
    ELSE on_base

\* the entries of the runners whom the event last' lets score: all of them on
\* a home run, else the first entry of each player whose runs went up
ScoringEntries ==
    IF last'.ty = 9 THEN DOMAIN OnBaseAtEvent
    ELSE {FirstRunner(on_base, id) :
            id \in {r \in DOMAIN game'[OffSide(Cur)].stats :
                       game'[OffSide(Cur)].stats[r].runs
                          # StatsOf(game[OffSide(Cur)].stats, r).runs}}

\* the runs the event last' credits
RunsCredited ==
    Total(game'[OffSide(Cur)], "runs") - Total(game[OffSide(Cur)], "runs")

\* one earned run for every credited run, each to the pitcher stored with
\* the scoring runner
ChargedAsStored ==
    PushAccepted =>
       /\ RunsCredited = Cardinality(ScoringEntries)
       /\ 0 \notin ScoringEntries
       /\ \A p \in DOMAIN game'[DefSide(Cur)].stats :
             game'[DefSide(Cur)].stats[p].earned_runs
                - StatsOf(game[DefSide(Cur)].stats, p).earned_runs
             = Cardinality({i \in ScoringEntries : OnBaseAtEvent[i].pitcher = p})
       /\ Total(game'[OffSide(Cur)], "earned_runs")
             = Total(game[OffSide(Cur)], "earned_runs")

\* a batter who reaches base on a walk or a hit is stored with the pitcher of
\* the event
StoredOnWalk ==
    PushAccepted /\ last'.desc \in {"walk", "single", "double", "triple"} =>
       /\ Len(on_base') = Len(on_base) + 1
       /\ on_base'[Len(on_base')].id = at_bat
       /\ on_base'[Len(on_base')].pitcher = PitcherAtEvent
       /\ \A i \in DOMAIN on_base :
             /\ on_base'[i].id = on_base[i].id
             /\ on_base'[i].pitcher = on_base[i].pitcher

\* a batter who reaches on a fielder's choice takes the place of the runner
\* put out, and is stored with the pitcher p
StoredOnFieldersChoice(p) ==
    /\ Len(on_base') = Len(on_base)
    /\ on_base'[Len(on_base')].id = at_bat
    /\ on_base'[Len(on_base')].pitcher = p
    /\ \A i \in 1..(Len(on_base) - 1) :
          on_base'[i].pitcher =
             on_base[IF i < FirstRunner(on_base, last'.name) THEN i ELSE i + 1].pitcher

\* an accepted event in which a named runner scores finds the runner on base
ScorerOnBase ==
    PushAccepted /\ last'.desc \in {"scores", "tags_up", "steals_fourth"} =>
       FirstRunner(on_base, last'.name) # 0

\* C16 as claimed: every credited run charges exactly one earned run, to the
\* pitcher who was the defense's current pitcher at the event where the
\* scoring runner reached base, also for a batter who reached on a fielder's
\* choice after a pitching change; a scoring runner who is not on the on-base
\* list makes push fail.
C16_ChargedToPitcherAtReach ==
    [][/\ ChargedAsStored
       /\ StoredOnWalk
       /\ PushAccepted /\ last'.desc = "out_at"
             => StoredOnFieldersChoice(PitcherAtEvent)
       /\ ScorerOnBase]_vars

\* C16, amended: every credited run charges exactly one earned run, to the
\* pitcher stored with the scoring runner on the on-base list: the defense's
\* current pitcher at the event where the runner reached base on a walk or a
\* hit, and, for a batter who reached on a fielder's choice, the pitcher
\* stored with the runner put out on that play; a scoring runner who is not
\* on the on-base list makes push fail.
C16_ChargedToStoredPitcher ==
    [][/\ ChargedAsStored
       /\ StoredOnWalk
       /\ PushAccepted /\ last'.desc = "out_at"
             => StoredOnFieldersChoice(
                   on_base[FirstRunner(on_base, last'.name)].pitcher)
       /\ ScorerOnBase]_vars

\* B, who reached on a fielder's choice after the pitching change, has scored
\* and the run is charged to the starter, who had put A on base
C16_Witness ==
    /\ phase = "running"
    /\ last.desc = "scores"
    /\ game.home.pitchers = <<"HH", "RH">>
    /\ StatsOf(game.home.stats, "HH").earned_runs = 1
    /\ StatsOf(game.home.stats, "HH").groundouts_pitched = 0
    /\ StatsOf(game.home.stats, "RH").groundouts_pitched = 1
    /\ StatsOf(game.home.stats, "RH").earned_runs = 0
    /\ StatsOf(game.away.stats, "B").runs = 1

----------------------------------------------------------------------------
(* Fraction (src/src/fraction.rs).  i64 and u64 are scaled to integers of  *)
(* Bits bits: the signed range is I64_MIN..I64_MAX, the unsigned range     *)
(* 0..U64_MAX, and a checked operation fails, an `as` cast wraps, exactly  *)
(* where the 64-bit one does at the scale of 64 bits.                      *)

Bits == 9

I64_MAX == 2^(Bits - 1) - 1
I64_MIN == -(2^(Bits - 1))
U64_MAX == 2^Bits - 1

\* the builds: with overflow checks (debug) and without (release)
Builds == {"debug", "release"}

signum(x) == IF x > 0 THEN 1 ELSE IF x < 0 THEN -1 ELSE 0

\* i64::unsigned_abs: the absolute value as u64 (that of I64_MIN fits)
unsigned_abs(x) == IF x < 0 THEN -x ELSE x

RECURSIVE gcd(_, _)
\* Gcd::gcd on u64
gcd(m, n) == IF n = 0 THEN m ELSE gcd(n, m % n)

\* `as i64` of a u64: the value modulo 2^Bits in the signed range
as_i64(u) == IF u > I64_MAX THEN u - 2^Bits ELSE u

\* an i64 that an unchecked operation let wrap
wrapping(x) == ((x - I64_MIN) % 2^Bits) + I64_MIN

\* `/` on i64: the quotient truncated toward zero
quot(n, d) == signum(n) * signum(d) * (unsigned_abs(n) \div unsigned_abs(d))

checked_add(x, y) ==
    IF x + y < I64_MIN \/ x + y > I64_MAX THEN Absent ELSE Some(x + y)

\* i64::checked_mul
checked_mul(x, y) ==
    IF x * y < I64_MIN \/ x * y > I64_MAX THEN Absent ELSE Some(x * y)

\* u64::checked_mul
checked_mul_u64(x, y) == IF x * y > U64_MAX THEN Absent ELSE Some(x * y)

\* Fraction::new
new(numer, denom) ==
    IF denom = 0
    THEN IF numer = 0 THEN [numer |-> 0, denom |-> 0]
         ELSE [numer |-> signum(numer), denom |-> 0]
    ELSE [numer |-> quot(numer, as_i64(gcd(unsigned_abs(numer), denom))),
          denom |-> denom \div gcd(unsigned_abs(numer), denom)]

\* the value overflow! returns
Overflow == [numer |-> I64_MAX, denom |-> U64_MAX]

is_overflow(f) == f.numer = I64_MAX /\ f.denom = U64_MAX

\* fn mul(x: i64, y: u64) -> Option<i64>
mul(x, y) ==
    IF checked_mul_u64(unsigned_abs(x), y) = Absent THEN Absent
    ELSE IF unsigned_abs(x) * y > I64_MAX THEN Absent
    ELSE checked_mul(unsigned_abs(x) * y, signum(x))

\* Fraction::new(overflow!(numer), overflow!(denom))
new_checked(numer, denom) ==
    IF numer = Absent \/ denom = Absent THEN Overflow
    ELSE new(Get(numer), Get(denom))

\* overflow!(ad.checked_add(bc)) of two products that overflow! let through
sum_checked(ad, bc) ==
    IF ad = Absent \/ bc = Absent THEN Absent ELSE checked_add(Get(ad), Get(bc))

\* impl Add for Fraction
fraction_add(self, other) ==
    IF self.denom = 0 /\ other.denom = 0
       /\ signum(self.numer) = signum(other.numer)
    THEN self
    ELSE new_checked(sum_checked(mul(self.numer, other.denom),
                                 mul(other.numer, self.denom)),
                     checked_mul_u64(self.denom, other.denom))

\* impl Mul for Fraction
fraction_mul(self, other) ==
    new_checked(checked_mul(self.numer, other.numer),
                checked_mul_u64(self.denom, other.denom))

\* the numerator of a quotient
div_numer(ad, sign) == IF ad = Absent THEN Absent ELSE checked_mul(Get(ad), sign)

\* impl Div for Fraction
fraction_div(self, other) ==
    new_checked(div_numer(mul(self.numer, other.denom), signum(other.numer)),
                checked_mul_u64(self.denom, unsigned_abs(other.numer)))

\* what an operation ends in: a Fraction, an integer, or a panic
Value(f) == [kind |-> "value", numer |-> f.numer, denom |-> f.denom]
Integer(x) == [kind |-> "integer", numer |-> x, denom |-> 1]
Panic == [kind |-> "panic", numer |-> 0, denom |-> 0]

\* impl Sub for Fraction: self + Fraction { numer: -other.numer, .. }; the
\* negation of i64::MIN panics with overflow checks and wraps without
fraction_sub(self, other, build) ==
    IF other.numer = I64_MIN /\ build = "debug" THEN Panic
    ELSE Value(fraction_add(self, [numer |-> wrapping(-other.numer),
                                   denom |-> other.denom]))

\* the remainder takes the quotient one further from zero
rounds_up_above_half(rem, denom) == rem > denom \div 2

\* (Ordering::Greater, _) | (Ordering::Equal, true) of
\* (rem.cmp(&(denom >> 1)), denom & 1 == 0)
rounds_up(rem, denom) ==
    rem > denom \div 2 \/ (rem = denom \div 2 /\ denom % 2 = 0)

\* (result as i64) * self.numer.signum()
signed_result(result, sign, build) ==
    IF checked_mul(result, sign) # Absent THEN Integer(result * sign)
    ELSE IF build = "debug" THEN Panic
    ELSE Integer(wrapping(result * sign))

\* Fraction::round
round(self, build) ==
    IF self.denom = 0 THEN Panic
    ELSE IF rounds_up(unsigned_abs(self.numer) % self.denom, self.denom)
    THEN IF unsigned_abs(self.numer) \div self.denom = U64_MAX THEN Panic
         ELSE signed_result(as_i64((unsigned_abs(self.numer) \div self.denom) + 1),
                            signum(self.numer), build)
    ELSE signed_result(as_i64(unsigned_abs(self.numer) \div self.denom),
                       signum(self.numer), build)

\* no game is replayed
Idle ==
    /\ New(DefaultPitchers)
    /\ store = EmptyStore
    /\ job = [g \in Games |-> Waiting]

\* Fraction::new(a, b) op Fraction::new(c, d)
Operations == {"add", "sub", "mul", "div"}

Operated(op, x, y, build) ==
    CASE op = "add" -> Value(fraction_add(x, y))
      [] op = "sub" -> fraction_sub(x, y, build)
      [] op = "mul" -> Value(fraction_mul(x, y))
      [] op = "div" -> Value(fraction_div(x, y))

Operate(op) ==
    /\ calc.op = "none"
    /\ \E build \in Builds :
          calc' = [calc EXCEPT !.op = op,
                               !.out = Operated(op, new(calc.a, calc.b),
                                                new(calc.c, calc.d), build)]
    /\ UNCHANGED <<engine, store, job, chronicler>>

\* operands around zero and at the ends of the ranges
Numerators == {I64_MIN, I64_MIN + 1, -2, -1, 0, 1, 2, 3, I64_MAX - 1, I64_MAX}
Denominators == {0, 1, 2, 3, 2^(Bits - 1), U64_MAX - 1, U64_MAX}

InitArith ==
    /\ Idle
    /\ chronicler = NoLoads
    /\ \E a \in Numerators, b \in Denominators,
          c \in Numerators, d \in Denominators :
          calc = [NoCalc EXCEPT !.a = a, !.b = b, !.c = c, !.d = d]

NextArith == \E op \in Operations : Operate(op)

SpecArith == InitArith /\ [][NextArith]_vars

\* Fraction { numer: a, denom: b }.round()
Round ==
    /\ calc.op = "none"
    /\ \E build \in Builds :
          calc' = [calc EXCEPT !.op = "round",
                               !.out = round([numer |-> calc.a, denom |-> calc.b],
                                             build)]
    /\ UNCHANGED <<engine, store, job, chronicler>>

\* every numerator, over small, even, odd and large denominators
RoundDenominators == {0, 1, 2, 3, 4, 5, 6, 100, 101, U64_MAX - 1, U64_MAX}

InitRound ==
    /\ Idle
    /\ chronicler = NoLoads
    /\ \E a \in I64_MIN..I64_MAX, b \in RoundDenominators :
          calc = [NoCalc EXCEPT !.a = a, !.b = b]

NextRound == Round

SpecRound == InitRound /\ [][NextRound]_vars

----------------------------------------------------------------------------
(* IEEE-754 on the values the operands denote.  A value is n/d with d >= 0: *)
(* NaN is 0/0, +inf is n/0 with n > 0, -inf is n/0 with n < 0, every other *)
(* value is the exact rational; a zero operand is +0.0 (0 as f64 / d).     *)

Float(n, d) == [n |-> IF d = 0 THEN signum(n) ELSE n, d |-> d]
NaN == [n |-> 0, d |-> 0]
Infinity(sign) == [n |-> sign, d |-> 0]

is_nan(x) == x.d = 0 /\ x.n = 0
is_infinite(x) == x.d = 0 /\ x.n # 0

float_neg(x) == [n |-> -x.n, d |-> x.d]

float_add(x, y) ==
    IF is_nan(x) \/ is_nan(y) THEN NaN
    ELSE IF is_infinite(x) /\ is_infinite(y)
    THEN IF x.n = y.n THEN x ELSE NaN
    ELSE IF is_infinite(x) THEN x
    ELSE IF is_infinite(y) THEN y
    ELSE [n |-> x.n * y.d + y.n * x.d, d |-> x.d * y.d]

float_mul(x, y) ==
    IF is_nan(x) \/ is_nan(y) THEN NaN
    ELSE IF is_infinite(x) \/ is_infinite(y)
    THEN IF x.n = 0 \/ y.n = 0 THEN NaN ELSE Infinity(signum(x.n) * signum(y.n))
    ELSE [n |-> x.n * y.n, d |-> x.d * y.d]

float_div(x, y) ==
    IF is_nan(x) \/ is_nan(y) THEN NaN
    ELSE IF is_infinite(x)
    THEN IF is_infinite(y) THEN NaN
         ELSE Infinity(signum(x.n) * (IF y.n < 0 THEN -1 ELSE 1))
    ELSE IF is_infinite(y) THEN [n |-> 0, d |-> 1]
    ELSE IF y.n = 0
    THEN IF x.n = 0 THEN NaN ELSE Infinity(signum(x.n))
    ELSE [n |-> x.n * y.d * signum(y.n), d |-> x.d * unsigned_abs(y.n)]

FloatResult(op, x, y) ==
    CASE op = "add" -> float_add(x, y)
      [] op = "sub" -> float_add(x, float_neg(y))
      [] op = "mul" -> float_mul(x, y)
      [] op = "div" -> float_div(x, y)

\* the Fraction f is the value x: the same of NaN, +inf, -inf, or the same
\* rational
SameValue(f, x) ==
    IF f.denom = 0 \/ x.d = 0
    THEN f.denom = 0 /\ x.d = 0 /\ signum(f.numer) = signum(x.n)
    ELSE f.numer * x.d = x.n * f.denom

Expected == FloatResult(calc.op, Float(calc.a, calc.b), Float(calc.c, calc.d))

\* C17: for all signed a, c and unsigned b, d and each of +, -, x, /, the
\* result of Fraction(a,b) op Fraction(c,d) is the overflow sentinel or has
\* the value IEEE-754 gives (a/b) op (c/d): NaN, +inf or -inf exactly when
\* that is NaN, +inf or -inf, and the exact rational otherwise.
C17_AgreesWithFloat ==
    calc.op \in Operations =>
        /\ calc.out.kind = "value"
        /\ is_overflow(calc.out) \/ SameValue(calc.out, Expected)

\* the division of a non-zero fraction by a zero-valued one (c = 0, d # 0)
DividedByZero ==
    /\ calc.op = "div"
    /\ calc.b # 0 /\ calc.a # 0
    /\ calc.c = 0 /\ calc.d # 0

\* the integer r is a nearest one to a/b: no further than a half from it
Nearest(r, a, b) == 2 * unsigned_abs(a - r * b) <= b

\* a/b lies exactly halfway between r and a neighbouring integer
Halfway(r, a, b) == 2 * unsigned_abs(a - r * b) = b

\* of the two integers nearest to a/b, r is the one further from zero
AwayFromZero(r, a, b) == unsigned_abs(r) * b > unsigned_abs(a)

\* the one numerator whose rounded magnitude is no i64
RoundsBeyondRange == calc.a = I64_MIN /\ calc.b = 1

\* C18 (as the code has it): round() of a fraction with non-zero denominator
\* is the nearest integer, an exact half going to the neighbour further from
\* zero (250/100 -> 3, -250/100 -> -3); only i64::MIN/1 may panic instead,
\* where overflow checks are on, and is i64::MIN where they are off.
C18_RoundsHalfAwayFromZero ==
    calc.op = "round" /\ calc.b # 0 =>
        IF RoundsBeyondRange
        THEN calc.out \in {Panic, Integer(I64_MIN)}
        ELSE /\ calc.out.kind = "integer"
             /\ Nearest(calc.out.numer, calc.a, calc.b)
             /\ Halfway(calc.out.numer, calc.a, calc.b)
                    => AwayFromZero(calc.out.numer, calc.a, calc.b)

\* C18 (as stated): round() of a fraction with non-zero denominator is the
\* nearest integer, an exact half going to the even neighbour
\* (250/100 -> 2, -250/100 -> -2).
C18_RoundsHalfToEven ==
    calc.op = "round" /\ calc.b # 0 =>
        /\ calc.out.kind = "integer"
        /\ Nearest(calc.out.numer, calc.a, calc.b)
        /\ Halfway(calc.out.numer, calc.a, calc.b) => calc.out.numer % 2 = 0

\* 250/100 has been rounded, to 3
C18_Witness ==
    /\ calc.op = "round"
    /\ calc.a = 250 /\ calc.b = 100
    /\ calc.out = Integer(3)

\* C19: +, -, x and / never wrap: the result is the exact value of
\* (a/b) op (c/d) in lowest terms, or has a zero denominator (NaN, +inf,
\* -inf), or is the overflow sentinel i64::MAX / u64::MAX.
C19_NeverWraps ==
    calc.op \in Operations =>
        /\ calc.out.kind = "value"
        /\ \/ is_overflow(calc.out)
           \/ calc.out.denom = 0
           \/ /\ Expected.d # 0
              /\ SameValue(calc.out, Expected)
              /\ gcd(unsigned_abs(calc.out.numer), calc.out.denom) = 1

\* a product whose parts all fit: 1/2^63 by i64::MIN/1
WrappedProduct ==
    /\ calc.op = "mul"
    /\ calc.a = 1 /\ calc.b = 2^(Bits - 1)
    /\ calc.c = I64_MIN /\ calc.d = 1
    /\ calc.out = Value([numer |-> 1, denom |-> 1])

----------------------------------------------------------------------------
(* The cache of entity versions (src/src/chronicler.rs).  chronicler.tree  *)
(* is the cache tree of one entity type: entries keyed by (id, valid_from) *)
(* with a value (valid_to, data).  chronicler.versions is what the remote  *)
(* service holds: for each entity the times at which a version of it       *)
(* starts.  Times are timestamps at or after the epoch.                    *)

MaxTime == 4
MaxLoads == 3

Entities == {1, 2}
Instants == 0..MaxTime
\* the times at which versions start, and the times of the responses
ChangePoints == 1..(MaxTime - 2)
ResponseTimes == (MaxTime - 1)..MaxTime

\* I64<BigEndian> as bytes: keys compare as the unsigned value
valid_from_bytes(t) == IF t < 0 THEN t + 2^Bits ELSE t

\* the order of Key::as_bytes(): the id, then valid_from
KeyLess(id1, from1, id2, from2) ==
    \/ id1 < id2
    \/ id1 = id2 /\ valid_from_bytes(from1) < valid_from_bytes(from2)

\* the entries of the tree whose key is strictly less than (id, at)
Below(tree, id, at) ==
    {e \in tree : KeyLess(e.id, e.valid_from, id, at)}

\* the greatest of a non-empty set of entries
Greatest(entries) ==
    CHOOSE e \in entries :
        \A f \in entries : f = e \/ KeyLess(f.id, f.valid_from, e.id, e.valid_from)

\* tree.get_lt(Key::new(id, at).as_bytes())
get_lt(tree, id, at) ==
    IF Below(tree, id, at) = {} THEN Absent
    ELSE Some(Greatest(Below(tree, id, at)))

\* key.id == id && key.valid_from() <= at && at < value.valid_to
covers(found, id, at) ==
    found # Absent
    /\ Get(found).id = id
    /\ Get(found).valid_from <= at
    /\ at < Get(found).valid_to

\* tree.insert(key, value): the entry of that key is replaced
tree_insert(tree, entry) ==
    {e \in tree : e.id # entry.id \/ e.valid_from # entry.valid_from}
        \cup {entry}

\* the start of the version of the entity at a time, given the starts at or
\* before it
LatestStart(starts) == CHOOSE s \in starts : \A r \in starts : r <= s

\* the end of a version: the start of the next one, if there is one
NextStart(starts, from) ==
    IF {s \in starts : s > from} = {} THEN Absent
    ELSE Some(CHOOSE s \in starts : s > from /\ \A r \in starts : r > from => s <= r)

\* GET /v2/entities?type=..&id=..&at=..: the items of the response
Items(starts, at) ==
    IF {s \in starts : s <= at} = {} THEN <<>>
    ELSE <<[valid_from |-> LatestStart({s \in starts : s <= at}),
            valid_to |-> NextStart(starts, LatestStart({s \in starts : s <= at}))]>>

\* version.valid_to.unwrap_or(response_time)
unwrap_or(option, default) == IF option = Absent THEN default ELSE Get(option)

\* the data of a version
Data(id, valid_from) == <<id, valid_from>>

\* Value { valid_to: version.valid_to.unwrap_or(response_time), data }
\* under Key::new(id, version.valid_from)
Fetched(id, version, response_time) ==
    [id |-> id, valid_from |-> version.valid_from,
     valid_to |-> unwrap_or(version.valid_to, response_time),
     data |-> Data(id, version.valid_from)]

\* the call, with what it returned and whether the cache answered it
Answered(c, id, at, cached, kind, data) ==
    [c EXCEPT !.loads = @ + 1, !.id = id, !.at = at, !.cached = cached,
              !.out = [kind |-> kind, data |-> data]]

\* the part of load after a miss
fetch(c, id, at, items, response_time, sent) ==
    IF ~sent THEN Answered(c, id, at, FALSE, "err", <<>>)
    ELSE IF items = <<>> THEN Answered(c, id, at, FALSE, "none", <<>>)
    ELSE [Answered(c, id, at, FALSE, "some", Data(id, items[1].valid_from))
             EXCEPT !.tree = tree_insert(@, Fetched(id, items[1], response_time))]

\* the part of load on what get_lt found
lookup(c, found, id, at, response_time, sent) ==
    IF covers(found, id, at)
    THEN Answered(c, id, at, TRUE, "some", Get(found).data)
    ELSE fetch(c, id, at, Items(c.versions[id], at), response_time, sent)

\* chronicler::load(ty, id, at); sent: the request, its Date header and its
\* body are there and parse
load(id, at, response_time, sent) ==
    /\ chronicler.loads < MaxLoads
    /\ chronicler' = lookup(chronicler, get_lt(chronicler.tree, id, at),
                            id, at, response_time, sent)
    /\ UNCHANGED <<engine, store, job, calc>>

InitLoads ==
    /\ Idle
    /\ calc = NoCalc
    /\ \E first \in SUBSET ChangePoints, second \in SUBSET ChangePoints :
          chronicler = [NoLoads EXCEPT !.versions = <<first, second>>]

NextLoads ==
    \E id \in Entities, at \in Instants, response_time \in ResponseTimes,
       sent \in BOOLEAN : load(id, at, response_time, sent)

SpecLoads == InitLoads /\ [][NextLoads]_vars

\* the cached versions of the entity whose window contains the time
Containing(tree, id, at) ==
    {e \in tree : e.id = id /\ e.valid_from <= at /\ at < e.valid_to}

\* a call of load has returned
Loaded == chronicler'.loads = chronicler.loads + 1

\* the call was answered from the cache, with the data of a cached version
\* whose window contains the time
HitContains ==
    chronicler'.cached =>
        /\ chronicler'.tree = chronicler.tree
        /\ chronicler'.out.kind = "some"
        /\ \E e \in Containing(chronicler.tree, chronicler'.id, chronicler'.at) :
              chronicler'.out.data = e.data

\* the call fetched a version and stored it under (id, valid_from), with
\* valid_to from the response or else from one of the response times
MissStores ==
    ~chronicler'.cached /\ chronicler'.out.kind = "some" =>
        \E e \in chronicler'.tree :
            /\ e.id = chronicler'.id
            /\ e.data = chronicler'.out.data
            /\ e.valid_from = e.data[2]
            /\ e.valid_to \in ResponseTimes
                  \/ Some(e.valid_to) = NextStart(chronicler.versions[e.id], e.valid_from)
            /\ chronicler'.tree = tree_insert(chronicler.tree, e)

\* C20: load(id, at) answers from the cache exactly when the cache holds a
\* version of the entity with valid_from <= at < valid_to (at = valid_from
\* included) and then returns that version's data; it never returns a cached
\* version whose window does not contain at; on a miss it stores the fetched
\* version under (id, valid_from) with valid_to from the response or, if
\* absent, from the response Date.
C20_CacheLookup ==
    [][Loaded =>
          /\ chronicler'.cached
                <=> Containing(chronicler.tree, chronicler'.id, chronicler'.at) # {}
          /\ HitContains
          /\ MissStores]_vars

\* what does hold of every call: a hit returns a cached version that
\* contains the time, and a fetched version is stored
HitsAndStores == [][Loaded => HitContains /\ MissStores]_vars

\* a second load at the very start of a cached version went to the server
RefetchedAtStart ==
    /\ chronicler.loads = 2
    /\ ~chronicler.cached
    /\ \E e \in chronicler.tree :
          /\ e.id = chronicler.id
          /\ e.valid_from = chronicler.at
          /\ chronicler.at < e.valid_to

----------------------------------------------------------------------------
(* Plate appearances.  The replay keeps the feed it has pushed            *)
(* (job["g1"].feed), so what the State holds can be set against the       *)
(* events that led to it.                                                 *)

MaxPA == 6

\* "<out> out at second base", the runner given by name only
OutAt(out) == [Ev(7, "out_at") EXCEPT !.name = out]

\* kind 41: a and b switch teams in the feedback
Feedback(a, b) == [Ev(41, "switch_teams") EXCEPT !.player_tags = <<a, b>>]

\* the events that end a plate appearance
PlateAppearanceEnds ==
    {Ev(5, "walk"), Strikeout, Ev(7, "flyout"), Ev(8, "ground_out"),
     OutAt("A"), Ev(8, "double_play"), Ev(10, "single"), Ev(10, "double"),
     Ev(10, "triple"), HomeRun}

PAEvents ==
    {At(e, expected, TRUE) :
       e \in PlateAppearanceEnds \cup {Bat("A"), Bat("B"), Feedback("A", "B")}}

InitPA == New(HardcodedPitchers) /\ FirstGame

PushPA == npushed < MaxPA /\ \E e \in PAEvents : ReplayPush("g1", e)

NextPA == PushPA

SpecPA == InitPA /\ [][NextPA]_vars

\* the events of the feed that push has accepted
AcceptedFeed ==
    IF phase = "failed"
    THEN SubSeq(job["g1"].feed, 1, Len(job["g1"].feed) - 1)
    ELSE job["g1"].feed

\* the number of accepted events that satisfy Test
Count(feed, Test(_)) == Cardinality({i \in DOMAIN feed : Test(feed[i])})

\* a kind-12 event that names p as the batter
NamesBatter(e, p) == e.ty = 12 /\ e.desc = "batting" /\ e.player_tags[1] = p

\* a kind-41 or kind-114 event that exchanges p with another player
Exchanges(e, p) ==
    \/ e.ty = 41 /\ e.desc = "switch_teams" /\ p \in Range(e.player_tags)
    \/ e.ty = 114 /\ e.extra.tag = "Swap" /\ p \in {e.extra.a, e.extra.b}

\* the plate appearances of p in a Game, over both teams
PlateAppearances(g, p) ==
    StatsOf(g.away.stats, p).plate_appearances
        + StatsOf(g.home.stats, p).plate_appearances

Batters(g) == DOMAIN g.away.stats \cup DOMAIN g.home.stats

\* push has been called with the event last'
PushCalled == npushed' = npushed + 1

EndsPlateAppearance(e) ==
    e.desc \in {"walk", "strikes_out", "flyout", "ground_out", "out_at",
                "double_play", "single", "double", "triple", "home_run"}

\* the step credits one plate appearance to b and none to anybody else
CreditsOnly(b) ==
    \A p \in Batters(game') :
        PlateAppearances(game', p)
            = PlateAppearances(game, p) + (IF p = b THEN 1 ELSE 0)

\* an event that ends a plate appearance fails with nobody at bat, and when
\* accepted credits the batter at bat once and leaves nobody at bat; no other
\* accepted event credits a plate appearance
OnePerPlateAppearance ==
    PushCalled =>
        IF EndsPlateAppearance(last')
        THEN /\ at_bat = None => phase' # "running"
             /\ phase' = "running" => CreditsOnly(at_bat) /\ at_bat' = None
        ELSE phase' = "running" => CreditsOnly(None)

----------------------------------------------------------------------------
(* Runs batted in and sacrifices: sibling groups of one or more events     *)

MaxRbi == 5

\* "<r> scores!", the runner tagged
Scores(r) == [Ev(10, "scores") EXCEPT !.name = r, !.player_tags = <<r>>]

\* a double play whose snapshot still has these runners on base
DoublePlay(left) == [Ev(8, "double_play") EXCEPT !.base_runners = Some(left)]

\* the event of the feed that push_inner skips
Skipped == [Bat("A") EXCEPT !.id = "skipped"]

\* A on third, B on first, C at bat; or nobody on base yet
RbiFeeds ==
    {<<>>, <<Bat("A"), Ev(10, "triple"), Bat("B"), Ev(5, "walk"), Bat("C")>>}

\* events that end their sibling group, and events that do not
RbiEvents ==
    {At(e, expected, TRUE) :
       e \in {Bat("A"), Bat("B"), Ev(5, "walk"), Ev(10, "double"),
              Ev(10, "triple"), HomeRun, Ev(7, "flyout"), Scores("A"), Sac("A"),
              DoublePlay(<<"A">>), Skipped}}
    \cup {At(e, expected, FALSE) :
            e \in {Bat("B"), Ev(5, "walk"), Ev(7, "flyout"), Ev(8, "ground_out"),
                   Scores("A"), DoublePlay(<<"A">>)}}

InitRbi == New(HardcodedPitchers) /\ \E head \in RbiFeeds : FeedStartsWith(head)

PushRbi == pushed_after_head < MaxRbi /\ \E e \in NextOf(RbiEvents) : Push(e)

NextRbi == PushRbi

SpecRbi == InitRbi /\ [][NextRbi]_vars

\* the runs batted in that the event last' adds to p
RbiAdded(p) ==
    StatsOf(game'[OffSide(Cur)].stats, p).runs_batted_in
        - StatsOf(game[OffSide(Cur)].stats, p).runs_batted_in

\* the batter who has the credit for the runs of the event last': the batter
\* of the home run, else the player in rbi_credit
CreditedBatter == IF last'.desc = "home_run" THEN at_bat ELSE rbi_credit

IsSacrifice(e) == e.ty = 10 /\ e.desc \in {"advances_on_sacrifice", "tags_up"}

\* every run of the event adds one RBI to the credited batter, and nothing
\* else adds one
RbiOnlyThroughCredit ==
    PushAccepted =>
        \A p \in DOMAIN game'[OffSide(Cur)].stats :
            RbiAdded(p) = IF p = CreditedBatter THEN RunsCredited ELSE 0

\* every run of the event adds one RBI to the credited batter, a sacrifice
\* adds one to the batter of the fielded out, and nothing else adds one
RbiThroughCreditOrSacrifice ==
    PushAccepted =>
        \A p \in DOMAIN game'[OffSide(Cur)].stats :
            RbiAdded(p) = (IF p = CreditedBatter THEN RunsCredited ELSE 0)
                          + (IF IsSacrifice(last') /\ p = last_fielded_out
                             THEN 1 ELSE 0)

\* rbi_credit is given to the batter of a walk or a hit only
CreditFromWalkOrHit ==
    PushAccepted /\ rbi_credit' # rbi_credit /\ rbi_credit' # None =>
        /\ last'.desc \in {"walk", "single", "double", "triple", "home_run"}
        /\ rbi_credit' = at_bat

\* what the terminal event of a sibling group leaves
GroupEnded ==
    /\ rbi_credit' = None
    /\ last_fielded_out' = None
    /\ on_base_start_of_play' = on_base'

\* C22 as claimed: a credited run adds exactly one RBI to the batter whose
\* walk or hit came earlier in the sibling group and to nobody otherwise;
\* after the terminal event of every sibling group rbi_credit and
\* last_fielded_out are None and on_base_start_of_play equals on_base, and a
\* double play clears rbi_credit.
C22_RbiToBatterOfGroup ==
    [][/\ RbiOnlyThroughCredit
       /\ CreditFromWalkOrHit
       /\ PushAccepted /\ is_last_sibling(last') => GroupEnded
       /\ PushAccepted /\ last'.desc = "double_play" => rbi_credit' = None]_vars

\* C22, amended: a credited run adds exactly one RBI to the player in
\* rbi_credit, the batter of the last walk or hit since a double play or the
\* end of a sibling group, and none when rbi_credit is None; the only other
\* RBI is the one a sacrifice adds to the batter of the fielded out; after
\* the terminal event of a sibling group, the skipped event excepted,
\* rbi_credit and last_fielded_out are None and on_base_start_of_play equals
\* on_base, and a double play clears rbi_credit.
C22_RbiToCreditedBatter ==
    [][/\ RbiThroughCreditOrSacrifice
       /\ CreditFromWalkOrHit
       /\ PushAccepted /\ is_last_sibling(last') /\ last'.id # "skipped"
             => GroupEnded
       /\ PushAccepted /\ last'.desc = "double_play" => rbi_credit' = None]_vars

\* A has scored in the sibling group of B's walk, and B has the RBI
C22_Witness ==
    /\ phase = "running"
    /\ last.desc = "scores"
    /\ rbi_credit = None
    /\ StatsOf(game.away.stats, "A").runs = 1
    /\ StatsOf(game.away.stats, "B").walks = 1
    /\ StatsOf(game.away.stats, "B").runs_batted_in = 1

----------------------------------------------------------------------------
(* The sacrifice *)

\* the offense's Stats of p before and after the event last'
Before(p) == StatsOf(game[OffSide(Cur)].stats, p)
After(p) == StatsOf(game'[OffSide(Cur)].stats, p)

IsFieldedOut(e) == e.desc \in {"flyout", "ground_out"}

\* 1 when the play started with a runner in scoring position
RispCount == IF risp(Cur) THEN 1 ELSE 0

\* an accepted flyout or ground out charges the batter a plate appearance
\* and an at bat, with RISP if the play started so, and, unless it ends its
\* sibling group, leaves the batter in last_fielded_out
FieldedOutCounted ==
    PushAccepted /\ IsFieldedOut(last') =>
        /\ at_bat # None
        /\ After(at_bat).plate_appearances = Before(at_bat).plate_appearances + 1
        /\ After(at_bat).at_bats = Before(at_bat).at_bats + 1
        /\ After(at_bat).at_bats_with_risp
              = Before(at_bat).at_bats_with_risp + RispCount
        /\ After(at_bat).sacrifices = Before(at_bat).sacrifices
        /\ After(at_bat).runs_batted_in = Before(at_bat).runs_batted_in
        /\ ~is_last_sibling(last') => last_fielded_out' = at_bat

\* inside a sibling group the runners the play started with stay as they are
SamePlay ==
    PushAccepted /\ ~is_last_sibling(last') =>
        on_base_start_of_play' = on_base_start_of_play

\* the sacrifice that follows the fielded out of B in its sibling group, no
\* walk or hit before them in the group: the runner scores, B gets the
\* sacrifice and the RBI, and the at bat is taken back, with RISP if counted
SacrificeAfterOut ==
    /\ phase = "running" /\ IsFieldedOut(last) /\ rbi_credit = None
    /\ PushAccepted /\ IsSacrifice(last')
    => /\ last_fielded_out # None
       /\ After(last'.player_tags[1]).runs = Before(last'.player_tags[1]).runs + 1
       /\ After(last_fielded_out).sacrifices = Before(last_fielded_out).sacrifices + 1
       /\ After(last_fielded_out).runs_batted_in
             = Before(last_fielded_out).runs_batted_in + 1
       /\ After(last_fielded_out).plate_appearances
             = Before(last_fielded_out).plate_appearances
       /\ After(last_fielded_out).at_bats = Before(last_fielded_out).at_bats - 1
       /\ After(last_fielded_out).at_bats_with_risp
             = Before(last_fielded_out).at_bats_with_risp - RispCount

\* a sacrifice with no fielded out before it in its sibling group fails
SacrificeNeedsOut ==
    PushCalled /\ IsSacrifice(last') /\ last_fielded_out = None =>
        phase' # "running"

\* last_fielded_out holds the batter of a flyout or ground out of the group
OutOfThisGroup ==
    PushAccepted /\ last_fielded_out' # last_fielded_out =>
        \/ last_fielded_out' = None /\ is_last_sibling(last')
        \/ last_fielded_out' = at_bat /\ IsFieldedOut(last')

----------------------------------------------------------------------------
(* The double play *)

\* events after the head of the feed
MaxDP == 3

\* the top of the first inning up to the batter of the double play: runners
\* A, B, C reach base, then one batter strikes out or none does
Reaches == <<Bat("A"), Ev(10, "single"), Bat("B"), Ev(5, "walk"), Bat("C"), Ev(5, "walk")>>
DPFeeds ==
    {<<HalfInning>> \o SubSeq(Reaches, 1, 2 * k) \o out \o <<Bat("E")>> :
        k \in 1..3, out \in {<<>>, <<Bat("D"), Strikeout>>}}

DPEvents ==
    {At(e, expected, TRUE) :
        e \in {Ev(8, "double_play"), DoublePlay(<<"A">>), DoublePlay(<<"A", "B">>),
               HalfInning, Bat("E"), Strikeout, Ev(5, "walk")}}

InitDP == New(HardcodedPitchers) /\ \E head \in DPFeeds : FeedStartsWith(head)

PushDP == pushed_after_head < MaxDP /\ \E e \in NextOf(DPEvents) : Push(e)

NextDP == PushDP

SpecDP == InitDP /\ [][NextDP]_vars

\* the left_on_base of the team batting before the event last'
TeamLobBefore == game[OffSide(Cur)].left_on_base
TeamLobAfter == game'[OffSide(Cur)].left_on_base

\* a double play on one out with two or more runners on is the third out:
\* the bases are cleared and every runner is left on base by the team
LastPlayOfHalf ==
    /\ PushAccepted /\ last'.desc = "double_play"
    /\ half_inning_outs = 1 /\ Len(on_base) >= 2
    => /\ half_inning_outs' = 3
       /\ on_base' = <<>>
       /\ After(at_bat).double_plays_grounded_into
             = Before(at_bat).double_plays_grounded_into + 1
       /\ TeamLobAfter = TeamLobBefore + Len(on_base)

\* the half-inning marker adds the runners still on base, and after the
\* double play that was the third out there is none
BoundaryAddsRunnersLeft ==
    /\ PushAccepted /\ last'.ty = 2 => TeamLobAfter = TeamLobBefore + Len(on_base)
    /\ phase = "running" /\ last.desc = "double_play" /\ half_inning_outs = 3
       => on_base = <<>>

\* a double play with one runner on clears the bases and charges the batter
\* with the runner
OneRunnerOn ==
    PushAccepted /\ last'.desc = "double_play" /\ Len(on_base) = 1 =>
        /\ on_base' = <<>>
        /\ After(at_bat).left_on_base = Before(at_bat).left_on_base + 1

\* C24: a double play on one out with k >= 2 runners on base makes
\* half_inning_outs 3, empties on_base, adds 1 to the batter's
\* double_plays_grounded_into and adds exactly k to the offense's
\* left_on_base over the play and the half-inning marker after it; with
\* exactly one runner on base it empties on_base and adds exactly 1 to the
\* batter's left_on_base.
C24_DoublePlay ==
    [][LastPlayOfHalf /\ BoundaryAddsRunnersLeft /\ OneRunnerOn]_vars

\* the half-inning marker after a double play on one out with three on:
\* the away team has left three on base, the bottom of the inning begins
C24_Witness ==
    /\ phase = "running"
    /\ last.ty = 2
    /\ ~top_of_inning
    /\ game.away.left_on_base = 3
    /\ StatsOf(game.away.stats, "E").double_plays_grounded_into = 1
    /\ StatsOf(game.away.stats, "D").strike_outs = 1
    /\ on_base = <<>>

----------------------------------------------------------------------------
(* The credits of the pitcher who finishes the game *)

\* events after the start of the game
MaxCredits == 5

CreditEvents ==
    {At(e, expected, TRUE) :
        e \in {Bat("A"), Ev(5, "walk"), Ev(10, "single"), HomeRun,
               NowPitching("RH"), Over("TH")}}

InitCredits == New(HardcodedPitchers) /\ FeedStartsWith(<<Start, HalfInning>>)

PushCredits == pushed_after_head < MaxCredits /\ \E e \in NextOf(CreditEvents) : Push(e)

NextCredits == PushCredits \/ Finish

SpecCredits == InitCredits /\ [][NextCredits]_vars

\* the game-end credits of pitcher p agree with the counters of p in the
\* Stats of this team
Consistent(team, p) ==
    LET st == team.stats[p]
    IN /\ st.games_finished = 1 => p = TopOf(team.pitchers)
       /\ st.complete_games = 1 => st.games_finished = 1 /\ st.games_started > 0
       /\ st.shutouts = 1 => st.complete_games = 1 /\ st.earned_runs = 0
       /\ st.no_hitters = 1 => st.shutouts = 1 /\ st.hits_allowed = 0
       /\ st.perfect_games = 1 => st.no_hitters = 1 /\ st.walks_issued = 0

\* C25: in every Game returned by finish(), games_finished = 1 only for the
\* last pitcher of a team's stack, complete_games = 1 only with
\* games_started > 0, shutouts = 1 only with complete_games = 1 and
\* earned_runs = 0, no_hitters = 1 only with shutouts = 1 and
\* hits_allowed = 0, perfect_games = 1 only with no_hitters = 1 and
\* walks_issued = 0, also when events are accepted after the kind-11 event.
C25_CreditsConsistent ==
    phase = "finished" =>
        \A side \in Range(Sides) : \A p \in DOMAIN game[side].stats :
            Consistent(game[side], p)

\* the credits agree with the counters when the kind-11 event has just been
\* accepted for the first time
ConsistentAtGameOver ==
    [][PushAccepted /\ last'.ty = 11 /\ ~game_finished =>
          \A side \in Range(Sides) : \A p \in DOMAIN game'[side].stats :
              Consistent(game'[side], p)]_vars

\* finish() returns a Game whose home starter has a shutout, a no-hitter and
\* a perfect game, and a home run, an earned run and a walk against
CreditedAfterGameOver ==
    /\ phase = "finished"
    /\ game.home.stats["HH"].perfect_games = 1
    /\ game.home.stats["HH"].earned_runs = 1
    /\ game.home.stats["HH"].hits_allowed = 1
    /\ game.home.stats["HH"].walks_issued = 1

----------------------------------------------------------------------------
(* The pitchers of record *)

\* events after the head of the feed
MaxRecord == 4

\* runners A and B on base, put there by the starter and by the reliever, C
\* at bat: in the top of the first at 0-0, and in the bottom of the first
\* with the home team behind 0-1 or 0-2
TwoOn(reliever) ==
    <<Bat("A"), Ev(5, "walk"), NowPitching(reliever), Bat("B"), Ev(5, "walk"), Bat("C")>>
RecordFeeds ==
    {<<HalfInning>> \o TwoOn("RH")}
    \cup {<<HalfInning>> \o Times(n, <<Bat("A"), HomeRun>>) \o <<HalfInning>> \o TwoOn("RA") :
             n \in 1..2}

RecordEvents ==
    {At(e, expected, TRUE) :
        e \in {Scores("A"), Scores("B"), HomeRun, Ev(5, "walk"), Bat("C")}}
    \cup {At(e, expected, FALSE) : e \in {Scores("A"), Scores("B")}}

InitRecord == New(HardcodedPitchers) /\ \E head \in RecordFeeds : FeedStartsWith(head)

PushRecord == pushed_after_head < MaxRecord /\ \E e \in NextOf(RecordEvents) : Push(e)

NextRecord == PushRecord

SpecRecord == InitRecord /\ [][NextRecord]_vars

\* the score comparison before and after the event last'
CmpBefore == Compare(runs(game.away), runs(game.home))
CmpAfter == Compare(runs(game'.away), runs(game'.home))

\* the runs of the event last' changed the comparison and left a team ahead
TakesLead == RunsCredited >= 1 /\ CmpAfter # CmpBefore /\ CmpAfter # "Equal"

\* the comparison is not the one the last sibling group ended with, and a
\* team is ahead: the test of credit_run after the last run of the event
LeadSinceLastPlay ==
    RunsCredited >= 1 /\ CmpAfter # last_runs_cmp /\ CmpAfter # "Equal"

\* the pitcher stored with the runner whose run the event credits last: the
\* batter of a home run, else the named runner
ChargedLast ==
    IF last'.ty = 9 THEN PitcherAtEvent
    ELSE on_base[FirstRunner(on_base, last'.name)].pitcher

OfRecord(side) == game[side].pitcher_of_record
OfRecordAfter(side) == game'[side].pitcher_of_record

C27_OnlyGoAheadRun ==
    [][PushAccepted /\ RunsCredited >= 1 /\ ~TakesLead =>
          \A side \in Range(Sides) : OfRecordAfter(side) = OfRecord(side)]_vars

\* runs that tie the game, and runs that extend a lead held at the end of
\* the last sibling group, leave the pitchers of record as they were
TyingOrLaterPlay ==
    [][PushAccepted /\ RunsCredited >= 1 /\ ~LeadSinceLastPlay =>
          \A side \in Range(Sides) : OfRecordAfter(side) = OfRecord(side)]_vars

\* B has scored behind A in the sibling group of the go-ahead run, and the
\* reliever has taken the starter's place as the pitcher of record
SecondRunOfGroup ==
    /\ phase = "running"
    /\ last.desc = "scores" /\ last.name = "B"
    /\ top_of_inning
    /\ runs(game.away) = 2 /\ runs(game.home) = 0
    /\ last_runs_cmp = "Greater"
    /\ game.home.pitcher_of_record = "RH"
    /\ StatsOf(game.home.stats, "HH").earned_runs = 1
    /\ StatsOf(game.home.stats, "RH").earned_runs = 1

----------------------------------------------------------------------------
(* The minimum bases of the runners *)

\* events after the head of the feed
MaxBases == 3

BasesFeeds ==
    {<<>>,
     <<Bat("A"), Ev(10, "double"), Bat("B")>>,
     <<Bat("A"), Ev(10, "single"), Bat("B"), Ev(10, "single"), Bat("C")>>}

\* the events that put the batter on base: walk, hits, fielder's choice
Reaching ==
    {Ev(5, "walk"), Ev(10, "single"), Ev(10, "double"), Ev(10, "triple"),
     OutAt("A"), OutAt("B")}

\* the runners after the event, as the game has them: those on base, less
\* the one put out, and the batter
RunnersAfter(e) ==
    LET kept == IF e.desc = "out_at" /\ FirstRunner(on_base, e.name) # 0
                THEN RemoveAt(on_base, FirstRunner(on_base, e.name))
                ELSE on_base
    IN [i \in 1..(Len(kept) + 1) |-> IF i <= Len(kept) THEN kept[i].id ELSE at_bat]

\* the bases of n runners none of whom has passed another: first to third,
\* no runner behind the next
Occupied(n) ==
    {b \in [1..n -> 0..2] : \A i \in 1..(n - 1) : b[i] >= b[i + 1]}

\* the event with the baseRunners / basesOccupied it ends the play with
WithRunners(e, ids, bases) ==
    [e EXCEPT !.base_runners = Some(ids), !.bases_occupied = Some(bases)]

BasesEvents ==
    {At(e, expected, TRUE) :
        e \in Reaching \cup {Bat("A"), Bat("B"), Bat("C"), Bat("D"), Scores("A")}}
    \cup {At(e, expected, FALSE) : e \in Reaching}
    \cup UNION {{At(WithRunners(e, RunnersAfter(e), b), expected, TRUE) :
                    b \in Occupied(Len(RunnersAfter(e)))} : e \in Reaching}

InitBases == New(HardcodedPitchers) /\ \E head \in BasesFeeds : FeedStartsWith(head)

PushBases == pushed_after_head < MaxBases /\ \E e \in NextOf(BasesEvents) : Push(e)

NextBases == PushBases

SpecBases == InitBases /\ [][NextBases]_vars

AddsRunner(e) == e.desc \in {"walk", "single", "double", "triple", "out_at"}

\* along the list every runner is at least as far as the next, and past
\* first base when the next is on first
InOrder(q) ==
    \A i \in 1..(Len(q) - 1) :
        /\ q[i].base >= q[i + 1].base
        /\ q[i + 1].base = 0 => q[i].base >= 1

\* q with the batter behind the runners of `kept`, in their order, none of
\* them on a lower base than before
KeepsRunners(kept, q) ==
    /\ Len(q) = Len(kept) + 1
    /\ q[Len(q)].id = at_bat
    /\ \A i \in DOMAIN kept :
          /\ q[i].id = kept[i].id
          /\ q[i].pitcher = kept[i].pitcher
          /\ q[i].base >= kept[i].base

----------------------------------------------------------------------------
(* The runner list against the runners of the event *)

\* events after the head of the feed
MaxSnap == 2

\* C at bat with one runner on, with two, and with two and three outs
SnapFeeds ==
    {<<Bat("A"), Ev(10, "single"), Bat("C")>>,
     <<Bat("A"), Ev(10, "double"), Bat("B"), Ev(5, "walk"), Bat("C")>>,
     <<Bat("A"), Ev(10, "double"), Bat("B"), Ev(5, "walk")>>
        \o Times(3, <<Bat("D"), Strikeout>>) \o <<Bat("C")>>}

\* baseRunners and basesOccupied of an event: up to two of these players,
\* each on first, second or third
SnapIds == {<<>>} \cup {<<a>> : a \in {"A", "B", "C"}}
               \cup {<<a, b>> : a, b \in {"A", "B", "C"}}

SnapEvents ==
    {At(e, expected, TRUE) : e \in {Bat("C"), Ev(5, "walk"), Strikeout}}
    \cup UNION {{At(WithRunners(e[1], ids, b), expected, e[2]) :
                    b \in [1..Len(ids) -> 0..2],
                    e \in {<<Bat("C"), TRUE>>, <<Bat("C"), FALSE>>,
                           <<Ev(5, "walk"), TRUE>>}} : ids \in SnapIds}

InitSnap == New(HardcodedPitchers) /\ \E head \in SnapFeeds : FeedStartsWith(head)

PushSnap == pushed_after_head < MaxSnap /\ \E e \in NextOf(SnapEvents) : Push(e)

NextSnap == PushSnap

SpecSnap == InitSnap /\ [][NextSnap]_vars

\* the event carries both halves of the snapshot
Carries(e) == e.base_runners # Absent /\ e.bases_occupied # Absent

\* the runners of q are those of known, each on the base known has for it
SameRunners(q, known) ==
    \A p \in {[base |-> q[i].base, id |-> q[i].id] : i \in DOMAIN q} \cup Range(known) :
        Cardinality({i \in DOMAIN q : q[i].id = p.id /\ q[i].base = p.base})
            = Cardinality({k \in DOMAIN known : known[k] = p})

\* no id twice
OneEach(q) == \A i, j \in DOMAIN q : q[i].id = q[j].id => i = j

\* every runner of q is in known, on its minimum base or beyond, and known
\* has no other runner
Fits(q, known) ==
    /\ Len(q) = Len(known)
    /\ \A i \in DOMAIN q :
          \E k \in DOMAIN known :
              known[k].id = q[i].id /\ known[k].base >= q[i].base

\* after an accepted last event of a sibling group with a snapshot, fewer
\* than three out, on_base has the runners and the bases of the snapshot
Reconciled ==
    /\ PushAccepted /\ is_last_sibling(last') /\ Carries(last')
    /\ half_inning_outs' < 3
    => SameRunners(on_base', Known(last'))

\* "X batting" leaves the runners alone: as the last event of its group,
\* fewer than three out, it is accepted exactly when the snapshot fits them
RejectsMismatch ==
    /\ PushCalled /\ last'.desc = "batting"
    /\ is_last_sibling(last') /\ Carries(last') /\ half_inning_outs < 3
    /\ OneEach(on_base) /\ OneEach(Known(last'))
    => (phase' = "running" <=> Fits(on_base, Known(last')))

\* with three out, and inside a sibling group, the snapshot is not looked at
NotCompared ==
    /\ PushCalled /\ last'.desc = "batting" /\ Carries(last')
    /\ half_inning_outs >= 3 \/ ~is_last_sibling(last')
    => phase' = "running" /\ on_base' = on_base

\* C29: after every accepted last event of a sibling group that carries a
\* base-runner snapshot while half_inning_outs < 3, the ids in on_base are
\* those of the snapshot and each runner's minimum base is its snapshot
\* base; push fails if a derived runner is missing from the snapshot, if a
\* snapshot runner is not derived, or if a snapshot base is below the
\* derived minimum base; with three outs nothing is compared, and events
\* inside a sibling group never reconcile.
C29_Reconciliation ==
    [][Reconciled /\ RejectsMismatch /\ NotCompared]_vars

\* A, who doubled, and B, who walked, have moved up to third and second
\* with the snapshot of the event that put C at bat
C29_Witness ==
    /\ phase = "running"
    /\ last.desc = "batting"
    /\ half_inning_outs < 3
    /\ last.base_runners = Some(<<"B", "A">>)
    /\ last.bases_occupied = Some(<<1, 2>>)
    /\ Len(on_base) = 2
    /\ on_base[1].id = "A" /\ on_base[1].base = 2
    /\ on_base[2].id = "B" /\ on_base[2].base = 1

----------------------------------------------------------------------------
(* Runners given by name *)

\* the event gives its runner by name only: the fielder's choice, and a
\* runner event without a player tag
ByNameOnly(e) == e.desc = "out_at" \/ (IsSacrifice(e) /\ e.player_tags = <<>>)

\* the ids of the offense that carry this name
Namesakes(team, name) ==
    {team.player_names[i].id : i \in NameMatches(team.player_names, name)}

\* C30: when the runner of an event is given by name only (fielder's choice
\* "out at", or a steal or score without a player tag) and two ids of the
\* offense's player_names carry that name, push fails with an attribution
\* error and chooses neither.
C30_NamesakeIsFatal ==
    [][/\ npushed' = npushed + 1
       /\ ByNameOnly(last')
       /\ Cardinality(Namesakes(offense(Cur), last'.name)) >= 2
       => phase' # "running"]_vars

\* A and B both go by the name "A"; A walked, B is at bat, and the
\* fielder's choice "A out at ..." has been accepted: one of the two was
\* taken for the runner, and B is on base in A's place
ChoseOneNamesake ==
    /\ phase = "running"
    /\ last.desc = "out_at"
    /\ Namesakes(game.away, "A") = {"A", "B"}
    /\ Len(on_base) = 1
    /\ on_base[1].id = "B"

----------------------------------------------------------------------------
(* Half-innings *)

\* events of the feed
MaxInnings == 6

InningEvents ==
    {At(e, expected, TRUE) :
        e \in {HalfInning, Bat("A"), Ev(5, "walk"), Strikeout, HomeRun}}

InitInnings == New(HardcodedPitchers) /\ FirstGame

PushInnings == npushed < MaxInnings /\ \E e \in InningEvents : ReplayPush("g1", e)

NextInnings == PushInnings

SpecInnings == InitInnings /\ [][NextInnings]_vars

IsHalfInning(e) == e.ty = 2

\* the accepted kind-2 events so far
HalfInnings == Count(AcceptedFeed, IsHalfInning)

\* after n >= 1 half-inning markers it is inning 1 + (n - 1) div 2, and the
\* top of it exactly when n is odd
InningOfMarker ==
    phase = "running" /\ HalfInnings >= 1 =>
        /\ inning = 1 + ((HalfInnings - 1) \div 2)
        /\ top_of_inning <=> HalfInnings % 2 = 1

\* the team that bats once the event last' is through
BatsNext == IF top_of_inning' THEN "away" ELSE "home"

\* what a half-inning marker does to the runners, the outs and the buckets
MarkerClears ==
    PushAccepted /\ last'.ty = 2 =>
        /\ game'[OffSide(Cur)].left_on_base
              = game[OffSide(Cur)].left_on_base + Len(on_base)
        /\ game'[DefSide(Cur)].left_on_base = game[DefSide(Cur)].left_on_base
        /\ half_inning_outs' = 0
        /\ on_base' = <<>>
        /\ inning' \in DOMAIN game'[BatsNext].inning_runs
        /\ game'[BatsNext].inning_runs[inning'] = 0

\* C31: after n >= 1 accepted kind-2 events inning = 1 + floor((n-1)/2) and
\* top_of_inning holds exactly when n is odd; each kind-2 event adds
\* |on_base| to the left_on_base of the team that was batting, sets
\* half_inning_outs to 0, empties on_base and sets the run bucket of the
\* new batting team for the inning to 0.
C31_HalfInnings == []InningOfMarker /\ [][MarkerClears]_vars

\* the fourth marker opens the bottom of the second; the walk of the top
\* of the first was left on base by the away team
C31_Witness ==
    /\ phase = "running"
    /\ last.ty = 2
    /\ HalfInnings = 4
    /\ inning = 2 /\ ~top_of_inning
    /\ game.away.left_on_base = 1
    /\ game.home.inning_runs[2] = 0

----------------------------------------------------------------------------
(* The home run *)

\* the entries of the list q that satisfy Test
Entries(q, Test(_)) == Cardinality({i \in DOMAIN q : Test(q[i])})

\* the run bucket of the inning, 0 when it is not open yet
Bucket(team, i) == IF i \in DOMAIN team.inning_runs THEN team.inning_runs[i] ELSE 0

\* C32: after an accepted home run with n runners on base, on_base is
\* empty, the run bucket of the offense for the inning is +(n+1), the batter
\* has home_runs +1, runs +1 and runs_batted_in +(n+1), every earlier
\* runner has runs +1, the current pitcher has home_runs_allowed +1 and
\* hits_allowed +1, and each of the n+1 earned runs is charged to the
\* pitcher stored with the scoring runner.
C32_HomeRun ==
    [][PushAccepted /\ last'.ty = 9 /\ last'.desc = "home_run" =>
          /\ at_bat # None
          /\ on_base' = <<>>
          /\ Bucket(game'[OffSide(Cur)], inning)
                = Bucket(game[OffSide(Cur)], inning) + Len(on_base) + 1
          /\ After(at_bat).home_runs = Before(at_bat).home_runs + 1
          /\ After(at_bat).runs_batted_in
                = Before(at_bat).runs_batted_in + Len(on_base) + 1
          /\ \A p \in DOMAIN game'[OffSide(Cur)].stats :
                After(p).runs
                   = Before(p).runs
                     + LET Is(r) == r.id = p IN Entries(OnBaseAtEvent, Is)
          /\ \A p \in DOMAIN game'[DefSide(Cur)].stats :
                /\ game'[DefSide(Cur)].stats[p].earned_runs
                      = StatsOf(game[DefSide(Cur)].stats, p).earned_runs
                        + LET By(r) == r.pitcher = p IN Entries(OnBaseAtEvent, By)
                /\ game'[DefSide(Cur)].stats[p].home_runs_allowed
                      = StatsOf(game[DefSide(Cur)].stats, p).home_runs_allowed
                        + IF p = PitcherAtEvent THEN 1 ELSE 0
                /\ game'[DefSide(Cur)].stats[p].hits_allowed
                      = StatsOf(game[DefSide(Cur)].stats, p).hits_allowed
                        + IF p = PitcherAtEvent THEN 1 ELSE 0
          /\ PitcherAtEvent \in DOMAIN game'[DefSide(Cur)].stats]_vars

\* B has homered off the reliever with A, whom the starter walked, on base:
\* two runs in the first, two RBI for B, an earned run each for the pitchers
C32_Witness ==
    /\ phase = "running"
    /\ last.desc = "home_run"
    /\ on_base = <<>>
    /\ game.away.inning_runs[1] = 2
    /\ StatsOf(game.away.stats, "A").runs = 1
    /\ StatsOf(game.away.stats, "B").runs = 1
    /\ StatsOf(game.away.stats, "B").home_runs = 1
    /\ StatsOf(game.away.stats, "B").runs_batted_in = 2
    /\ StatsOf(game.home.stats, "HH").earned_runs = 1
    /\ StatsOf(game.home.stats, "RH").earned_runs = 1
    /\ StatsOf(game.home.stats, "RH").home_runs_allowed = 1
    /\ StatsOf(game.home.stats, "RH").hits_allowed = 1

----------------------------------------------------------------------------
(* Trades *)

\* events after the start of the game
MaxTrade == 4

\* the kind-113 event of a feedback swap of a and b
Trade(a, b) == [Ev(113, "swapped_in_feedback") EXCEPT !.player_tags = <<a, b>>]

TradeEvents ==
    {At(e, expected, TRUE) :
        e \in {Feedback("A", "B"), Feedback("B", "HH"), Trade("A", "B"),
               Bat("A"), Bat("B"), HalfInning}}

InitTrade == New(HardcodedPitchers) /\ FeedStartsWith(<<Start>>)

PushTrade == pushed_after_head < MaxTrade /\ \E e \in NextOf(TradeEvents) : Push(e)

NextTrade == PushTrade

SpecTrade == InitTrade /\ [][NextTrade]_vars

\* a position after the exchange of a and b
Exchanged(position, a, b) ==
    IF TopOf(position) = a THEN Append(position, b)
    ELSE IF TopOf(position) = b THEN Append(position, a)
    ELSE position

\* the event last' has exchanged its two tagged players: in every position
\* of either team, lineup and pitcher stack, and at bat
ExchangesTagged ==
    /\ \A side \in Range(Sides) :
          /\ Len(positions(game'[side])) = Len(positions(game[side]))
          /\ \A i \in DOMAIN positions(game[side]) :
                positions(game'[side])[i]
                   = Exchanged(positions(game[side])[i],
                               last'.player_tags[1], last'.player_tags[2])
    /\ at_bat' = IF at_bat = last'.player_tags[1] THEN last'.player_tags[2]
                 ELSE IF at_bat = last'.player_tags[2] THEN last'.player_tags[1]
                 ELSE at_bat

\* C33 as claimed: an accepted kind-113 event exchanges the two traded
\* players: every lineup position of either team whose top is one of the
\* two gets the other pushed on top, and at_bat is replaced by the other
\* when it is one of them.
C33_TradeExchanges ==
    [][PushAccepted /\ last'.ty = 113 => ExchangesTagged]_vars

\* C33, amended: the exchange is made by the accepted kind-41 event "...
\* switch teams in the feedback!" with its two player tags, in every
\* position of either team, lineup and pitcher stack, and at bat; an
\* accepted kind-113 event leaves the Game and at_bat as they are.
C33_FeedbackExchanges ==
    [][/\ PushAccepted /\ last'.ty = 41 /\ last'.desc = "switch_teams"
             => ExchangesTagged
       /\ PushAccepted /\ last'.ty = 113 => game' = game /\ at_bat' = at_bat]_vars

\* the feedback has exchanged A, who was at bat for the away team, and B of
\* the home team
C33_Witness ==
    /\ phase = "running"
    /\ last.ty = 41
    /\ last.player_tags = <<"A", "B">>
    /\ at_bat = "B"
    /\ game.away.lineup = <<(<<"A", "B">>)>>
    /\ game.home.lineup = <<(<<"B", "A">>)>>

\* a kind-113 event for A and B has been accepted and A tops the position
\* as before
TradeLeftAlone ==
    /\ phase = "running"
    /\ last.ty = 113
    /\ game.away.lineup = <<(<<"A">>)>>
    /\ game.home.lineup = <<(<<"B">>)>>

----------------------------------------------------------------------------
(* Flavor events *)

\* events after the head of the feed
MaxCosmetic == 2

\* the kinds the dispatch table lists as cosmetic or flavor
CosmeticKinds ==
    {20, 23, 24, 28, 41, 46, 47, 54, 73, 84, 106, 107, 146, 147, 117, 118, 119,
     125, 137, 193, 209, 214, 215, 216, 223, 252, 262, 263, 264, 265}

\* "<name> was Frozen!" and its removal, a modification other than FROZEN
Modified(ty, mod, desc) ==
    [Ev(ty, desc) EXCEPT !.mod = mod, !.name = "A", !.player_tags = <<"A">>]

\* A on first, B at bat in the top of the first
CosmeticHead == <<Start, HalfInning, Bat("A"), Ev(10, "single"), Bat("B")>>

\* one event of every cosmetic kind; some of them in the middle of a sibling
\* group, with the pitchers of both teams, or with a snapshot that has A on
\* first or on second; the feedback with and without its description
CosmeticEvents ==
    {At(Ev(k, ""), expected, TRUE) : k \in CosmeticKinds}
    \cup {At(Modified(k, mod, "was_frozen"), expected, TRUE) :
             k \in {106, 107}, mod \in {"FROZEN", "OTHER"}}
    \cup {At(e, expected, TRUE) :
             e \in {Feedback("A", "B"), [Feedback("A", "B") EXCEPT !.desc = ""],
                    Bat("A")}}
    \cup UNION {{At(Ev(k, ""), expected, FALSE),
                 At(WithPitchers(Ev(k, "")), expected, TRUE),
                 At(WithPitchers(Ev(k, "")), expected, FALSE),
                 At(WithRunners(Ev(k, ""), <<"A">>, <<0>>), expected, TRUE),
                 At(WithRunners(Ev(k, ""), <<"A">>, <<1>>), expected, TRUE),
                 At(WithRunners(Ev(k, ""), <<"A">>, <<1>>), expected, FALSE)} :
                   k \in {28, 193}}

InitCosmetic ==
    /\ New(DefaultPitchers) \/ New(HardcodedPitchers)
    /\ FeedStartsWith(CosmeticHead)

PushCosmetic ==
    pushed_after_head < MaxCosmetic /\ \E e \in NextOf(CosmeticEvents) : Push(e)

NextCosmetic == PushCosmetic

SpecCosmetic == InitCosmetic /\ [][NextCosmetic]_vars

\* the event last' leaves the identity, the lineup, the pitcher stack and the
\* stats of both teams, the game kind, the inning, the half, the outs, the
\* batter and the runners as they are
LeavesGameAlone ==
    /\ \A side \in Range(Sides) :
          /\ game'[side].id = game[side].id
          /\ game'[side].lineup = game[side].lineup
          /\ game'[side].pitchers = game[side].pitchers
          /\ game'[side].stats = game[side].stats
    /\ game'.kind = game.kind
    /\ inning' = inning
    /\ top_of_inning' = top_of_inning
    /\ half_inning_outs' = half_inning_outs
    /\ at_bat' = at_bat
    /\ on_base' = on_base

\* the kind-41 event of a feedback swap
IsFeedbackSwap(e) == e.ty = 41 /\ e.desc = "switch_teams"

\* the event names the pitcher of a team that has the placeholder for one
NamesPitcher(side, e) ==
    /\ has_placeholder_pitcher(game[side])
    /\ IF side = "away"
       THEN e.away_pitcher \notin {None, Nil} /\ e.away_pitcher_name # None
       ELSE e.home_pitcher \notin {None, Nil} /\ e.home_pitcher_name # None

\* the event ends its sibling group with a snapshot of the bases, before the
\* third out
ReconcilesRunners(e) == is_last_sibling(e) /\ Carries(e) /\ half_inning_outs < 3

\* what a flavor event leaves alone: everything LeavesGameAlone lists, but
\* for the game kind on a prize match, the pitcher stack and stats of a team
\* whose placeholder pitcher the event names, and the bases of the runners
\* when the event reconciles them, which never lowers one
LeavesPlayAlone(e) ==
    /\ \A side \in Range(Sides) :
          /\ game'[side].id = game[side].id
          /\ game'[side].lineup = game[side].lineup
          /\ ~NamesPitcher(side, e) =>
                /\ game'[side].pitchers = game[side].pitchers
                /\ game'[side].stats = game[side].stats
    /\ game'.kind = IF e.ty = 193 THEN "Special" ELSE game.kind
    /\ inning' = inning
    /\ top_of_inning' = top_of_inning
    /\ half_inning_outs' = half_inning_outs
    /\ at_bat' = at_bat
    /\ Len(on_base') = Len(on_base)
    /\ \A i \in DOMAIN on_base :
          /\ on_base'[i].id = on_base[i].id
          /\ on_base'[i].base >= on_base[i].base
    /\ (~ReconcilesRunners(e) /\ \A side \in Range(Sides) : ~NamesPitcher(side, e))
          => on_base' = on_base

\* C34 as claimed: an accepted event of a cosmetic kind leaves the Game, the
\* inning, the half, the outs, the batter and the runners unchanged.
C34_CosmeticChangesNothing ==
    [][PushAccepted /\ last'.ty \in CosmeticKinds => LeavesGameAlone]_vars

\* C34, amended: an accepted event of a cosmetic kind other than the kind-41
\* event of a feedback swap leaves the team identities, the lineups, the
\* inning, the half, the outs, the batter and the ids of the runners
\* unchanged; kind 193 sets the game kind to Special; the pitcher stack and
\* the stats of a team change only when the event names the pitcher its
\* placeholder stands for; the bases of the runners change only when the
\* event ends its sibling group with a snapshot, and are never lowered.
C34_FlavorLeavesPlayAlone ==
    [][PushAccepted /\ last'.ty \in CosmeticKinds /\ ~IsFeedbackSwap(last')
          => LeavesPlayAlone(last')]_vars

\* an end-of-inning message has been accepted with A on first and B at bat
C34_Witness ==
    /\ phase = "running"
    /\ pushed_after_head = 1
    /\ last.ty = 28
    /\ last.base_runners = Absent
    /\ at_bat = "B"
    /\ Len(on_base) = 1 /\ on_base[1].id = "A" /\ on_base[1].base = 0
    /\ game.kind = "Regular"

\* a prize-match message has been accepted: the game is a special one
PrizeMatch ==
    phase = "running" /\ pushed_after_head = 1 /\ last.ty = 193
       /\ game.kind = "Special"

\* a flavor event with a snapshot has moved A from first to second
FlavorMovesRunner ==
    /\ phase = "running"
    /\ pushed_after_head = 1
    /\ last.ty = 28
    /\ on_base[1].base = 1

\* a flavor event has named the away team's pitcher
FlavorNamesPitcher ==
    /\ phase = "running"
    /\ pushed_after_head = 1
    /\ last.ty = 28
    /\ game.away.pitchers = <<"PA">>

----------------------------------------------------------------------------
(* The save tag of an incoming pitcher *)

\* events after the head of the feed
MaxEntry == 4

\* n of A, C and D draw a walk
Walks(n) ==
    SubSeq(<<Bat("A"), Ev(5, "walk"), Bat("C"), Ev(5, "walk"), Bat("D"), Ev(5, "walk")>>,
           1, 2 * n)

\* the bottom of the ninth, the away team two runs ahead, two out, B on first
AwayLeadsLate ==
    <<Start, HalfInning, Bat("A"), HomeRun, Bat("A"), HomeRun>>
       \o Times(17, <<HalfInning>>)
       \o <<Bat("B"), Strikeout, Bat("B"), Strikeout, Bat("B"), Ev(5, "walk")>>

\* the top of the second with the home team ahead by 0 to 4 runs and up to
\* three runners on, and the end of a game
EntryFeeds ==
    {HomeLeads(k, 0) \o Walks(n) : k \in 0..4, n \in 0..3} \cup {AwayLeadsLate}

EntryEvents ==
    {At(e, expected, TRUE) :
       e \in {NowPitching("R1"), NowPitching("R2"), Bat("C"), Strikeout,
              Ev(5, "walk"), HomeRun, Scores("A"), Scores("B")}}

InitEntry == New(HardcodedPitchers) /\ \E head \in EntryFeeds : FeedStartsWith(head)

PushEntry == pushed_after_head < MaxEntry /\ \E e \in NextOf(EntryEvents) : Push(e)

NextEntry == PushEntry

SpecEntry == InitEntry /\ [][NextEntry]_vars

\* the tag the score calls for when a pitcher comes in
TagOfScore(offense_runs, defense_runs, runners) ==
    IF defense_runs > offense_runs
          /\ (offense_runs + 1 >= defense_runs
                 \/ offense_runs + runners >= defense_runs)
    THEN "TyingRun"
    ELSE IF defense_runs > offense_runs /\ defense_runs - offense_runs <= 3
    THEN "LeadThreeOrLess"
    ELSE None

\* the kind-3 event last' has put a new pitcher on the defense's stack
BringsIn ==
    /\ PushAccepted
    /\ last'.ty = 3
    /\ game'[DefSide(Cur)].pitchers = Append(defense(Cur).pitchers, last'.player_tags[1])

\* the tag of the team on defense is the one the score calls for
TagSetOnEntry ==
    BringsIn =>
        save_situation'[DefIndex(Cur)] =
            TagOfScore(runs(offense(Cur)), runs(defense(Cur)), Len(on_base))

\* the event last' is the first plate appearance against the defense's pitcher
FirstBatterFaced ==
    /\ game'[DefSide(Cur)].pitchers = defense(Cur).pitchers
    /\ StatsOf(defense(Cur).stats, pitcher(Cur)).batters_faced = 0
    /\ StatsOf(game'[DefSide(Cur)].stats, pitcher(Cur)).batters_faced = 1

\* the game-over condition once the event last' has counted its out
OverAfterOut ==
    /\ inning >= 9
    /\ ~top_of_inning
    /\ half_inning_outs' = 3
    /\ runs(game.away) # runs(game.home)

\* the first batter a pitcher faces with a one-run lead, the game not over
TyingRunOnDeck ==
    /\ FirstBatterFaced
    /\ runs(defense(Cur)) = runs(offense(Cur)) + 1
    /\ ~OverAfterOut

\* an event that brings nobody in changes a tag only to TyingRun, for the
\* defense, as the first batter its pitcher faces; and that batter does
RaisedByFirstBatter ==
    PushAccepted /\ ~BringsIn =>
        /\ \A i \in 1..2 :
              save_situation'[i] # save_situation[i] =>
                  /\ i = DefIndex(Cur)
                  /\ save_situation'[i] = "TyingRun"
                  /\ TyingRunOnDeck
        /\ TyingRunOnDeck => save_situation'[DefIndex(Cur)] = "TyingRun"

\* C35: a kind-3 event that brings in a new pitcher sets the defense's save
\* tag from the score and the runners of that moment (TyingRun, else
\* LeadThreeOrLess, else none); afterwards the tag changes only to TyingRun,
\* by the first batter that pitcher faces, with the defense exactly one run
\* ahead and the game not over.
C35_SaveTagOnEntry ==
    [][TagSetOnEntry /\ RaisedByFirstBatter]_vars

\* R1 has come in for the home team three runs ahead with A and C on base:
\* a lead of three or less
C35_Witness ==
    /\ phase = "running"
    /\ last.ty = 3
    /\ game.home.pitchers = <<"HH", "R1">>
    /\ runs(game.home) = 3 /\ runs(game.away) = 0
    /\ Len(on_base) = 2
    /\ save_situation = <<None, "LeadThreeOrLess">>

\* R1 came in with a lead of two, A scored, and R1's first batter struck out
RaisedAfterEntry ==
    /\ phase = "running"
    /\ last.ty = 6
    /\ game.home.pitchers = <<"HH", "R1">>
    /\ StatsOf(game.home.stats, "HH").batters_faced = 1
    /\ StatsOf(game.home.stats, "R1").batters_faced = 1
    /\ runs(game.home) = 2 /\ runs(game.away) = 1
    /\ save_situation[2] = "TyingRun"

\* the third out of the game was the first batter of R1, one run ahead: the
\* tag stays
NotRaisedAtGameOver ==
    /\ phase = "running"
    /\ last.ty = 6
    /\ inning = 9 /\ ~top_of_inning /\ half_inning_outs = 3
    /\ game.away.pitchers = <<"HA", "R1">>
    /\ runs(game.away) = 2 /\ runs(game.home) = 1
    /\ save_situation[1] = "LeadThreeOrLess"

----------------------------------------------------------------------------
(* Outs *)

\* events after the head of the feed
MaxOutsMade == 4

\* "<r> gets caught stealing second base."
CaughtStealing(r) == [Ev(4, "caught_stealing") EXCEPT !.name = r, !.player_tags = <<r>>]

\* the top of the first: up to two of A and B on base, up to two strikeouts
\* of D, E at bat
OutsMadeFeeds ==
    {<<Start, HalfInning>> \o SubSeq(Reaches, 1, 2 * k)
        \o Times(outs, <<Bat("D"), Strikeout>>) \o <<Bat("E")>> :
           k \in 0..2, outs \in 0..2}

OutsMadeEvents ==
    {At(e, expected, TRUE) :
        e \in {Strikeout, Ev(7, "flyout"), OutAt("A"), Ev(8, "double_play"),
               CaughtStealing("A"), CaughtStealing("B"), HalfInning, Bat("E"),
               NowPitching("R1"), Ev(5, "walk")}}

InitOutsMade ==
    New(HardcodedPitchers) /\ \E head \in OutsMadeFeeds : FeedStartsWith(head)

PushOutsMade ==
    pushed_after_head < MaxOutsMade /\ \E e \in NextOf(OutsMadeEvents) : Push(e)

NextOutsMade == PushOutsMade

SpecOutsMade == InitOutsMade /\ [][NextOutsMade]_vars

\* the outs on the lines of the team's players
OutsRecorded(team) ==
    SumOver([k \in DOMAIN team.stats |-> team.stats[k].outs_recorded],
            DOMAIN team.stats)

\* the outs the event last' has added to the half-inning
OutsMade == half_inning_outs' - half_inning_outs

\* an event other than a half-inning marker adds as many outs to the line of
\* the defense's current pitcher as to the half-inning, and to no other line
OutsPaired ==
    PushAccepted /\ last'.ty # 2 =>
        /\ OutsMade >= 0
        /\ StatsOf(game'[DefSide(Cur)].stats, PitcherAtEvent).outs_recorded
              = StatsOf(defense(Cur).stats, PitcherAtEvent).outs_recorded + OutsMade
        /\ \A side \in Range(Sides) :
              \A k \in DOMAIN game'[side].stats :
                  side # DefSide(Cur) \/ k # PitcherAtEvent =>
                      game'[side].stats[k].outs_recorded
                          = StatsOf(game[side].stats, k).outs_recorded

\* a half-inning marker changes nobody's outs_recorded
MarkerKeepsOuts ==
    PushAccepted /\ last'.ty = 2 =>
        \A side \in Range(Sides) : OutsRecorded(game'[side]) = OutsRecorded(game[side])

\* in the first inning each team has been on defense in one half-inning
OutsOfFirstInning ==
    phase = "running" /\ inning = 1 =>
        /\ OutsRecorded(defense(Cur)) = half_inning_outs
        /\ top_of_inning => OutsRecorded(offense(Cur)) = 0

\* C36: for each team the outs_recorded of its pitchers add up to the
\* half_inning_outs of the half-innings it was on defense in: every out added
\* to half_inning_outs is added once to outs_recorded of the defense's current
\* pitcher, and nothing else changes either counter.
C36_OutsPaired ==
    []OutsOfFirstInning /\ [][OutsPaired /\ MarkerKeepsOuts]_vars

\* a double play has made two outs, both on the line of the reliever
C36_Witness ==
    /\ phase = "running"
    /\ last.desc = "double_play"
    /\ half_inning_outs = 3
    /\ game.home.pitchers = <<"HH", "R1">>
    /\ StatsOf(game.home.stats, "HH").outs_recorded = 1
    /\ StatsOf(game.home.stats, "R1").outs_recorded = 2

\* a runner caught stealing is an out on the pitcher's line
CaughtStealingCounted ==
    /\ phase = "running"
    /\ last.ty = 4
    /\ half_inning_outs = 1
    /\ OutsRecorded(game.home) = 1

\* the outs of the half-inning are at most three
ThreeOutsAtMost == phase = "running" => half_inning_outs <= 3

\* an event that makes outs does not take the half-inning past three
NoOutPastThird == PushAccepted /\ OutsMade > 0 => half_inning_outs + OutsMade <= 3

\* C37 as claimed: half_inning_outs never exceeds 3; after the third out no
\* strikeout, fielded out, double play or caught stealing is accepted before
\* the next half-inning marker, and no double play after the second out.
C37_AtMostThreeOuts ==
    []ThreeOutsAtMost /\ [][NoOutPastThird]_vars

\* a fourth out has been accepted in the top of the first
FourthOut ==
    /\ phase = "running"
    /\ inning = 1 /\ top_of_inning
    /\ half_inning_outs = 4
    /\ OutsRecorded(game.home) = 4

----------------------------------------------------------------------------
(* After the last out *)

\* events after the head of the feed
MaxOver == 3

\* the bottom of the ninth with two out and B at bat, the away team `lead`
\* runs ahead
LastOfNinth(lead) ==
    <<Start, HalfInning>> \o Times(lead, <<Bat("A"), HomeRun>>)
       \o Times(17, <<HalfInning>>)
       \o Times(2, <<Bat("B"), Strikeout>>) \o <<Bat("B")>>

\* events at the expected place of the feed, a half-inning marker one play
\* ahead, a batter and a half-inning marker out of sequence, and the event
\* push skips
OverEvents ==
    {At(e, expected, TRUE) :
        e \in {Strikeout, Bat("B"), HomeRun, HalfInning, Over("TA"), Over("TH"),
               Modified(107, "INHABITING", ""), Modified(107, "FROZEN", "was_frozen"),
               Ev(107, ""), Ev(216, ""), Ev(28, ""), Skipped}}
    \cup {At(HalfInning, <<expected[1] + 1, expected[2]>>, TRUE),
          At(Bat("B"), <<expected[1] + 2, 0>>, TRUE),
          At(HalfInning, <<0, 0>>, TRUE)}

InitOver ==
    New(HardcodedPitchers) /\ \E lead \in 0..1 : FeedStartsWith(LastOfNinth(lead))

PushOver == pushed_after_head < MaxOver /\ \E e \in NextOf(OverEvents) : Push(e)

NextOver == PushOver

SpecOver == InitOver /\ [][NextOver]_vars

\* the game-over condition holds and no kind-11 event has been accepted
AwaitsGameOver == is_game_over(Cur) /\ ~game_finished

\* the events the check lets through
LetThrough(e) == e.ty = 11 \/ (e.ty = 107 /\ e.mod = "INHABITING")

\* the event last' leaves the inning, the half, the outs, the runners and
\* the expected pair as they are
NoNewInning ==
    UNCHANGED <<game, inning, top_of_inning, half_inning_outs, on_base, at_bat,
                expected>>

\* push rejects the event last' with 'game over mismatch'
RejectedAsOver == phase' = "failed" /\ outcome' = "game over mismatch"

\* what push does with an event the check does not let through: the skipped
\* id is passed over; an event out of sequence is a missing event (a
\* half-inning marker with play 0 may panic in the subtraction before that);
\* every other event is a game-over mismatch
RejectedOrSkipped ==
    IF last'.id = "skipped" THEN phase' = "running" /\ NoNewInning
    ELSE IF ClaimedMatch(last', expected) THEN RejectedAsOver
    ELSE \/ phase' = "failed" /\ outcome' = "missing event"
         \/ phase' = "panicked" /\ last'.ty = 2 /\ last'.play = 0

\* C38 as claimed: once the game is over and no kind-11 event has been
\* accepted, push rejects every event other than kind 11 and the kind-107
\* INHABITING event with 'game over mismatch'.
C38_OnlyGameOverAccepted ==
    [][PushCalled /\ AwaitsGameOver /\ ~LetThrough(last') => RejectedAsOver]_vars

\* C38, amended: once the game is over and no kind-11 event has been
\* accepted, push accepts only kind 11, the kind-107 INHABITING event and
\* the one event id it skips, which changes nothing; an event at the expected
\* place, a half-inning marker included, is rejected with 'game over
\* mismatch' and an event out of sequence with 'missing event', but for an
\* out-of-sequence half-inning marker with play 0, on which a build with
\* overflow checks panics.
C38_NothingAfterLastOut ==
    [][PushCalled /\ AwaitsGameOver /\ ~LetThrough(last') => RejectedOrSkipped]_vars

\* the half-inning marker after the last out of the ninth has been rejected
C38_Witness ==
    /\ phase = "failed"
    /\ outcome = "game over mismatch"
    /\ last.ty = 2
    /\ pushed_after_head = 2

\* with the score tied the marker opens the tenth inning
ExtraInning ==
    /\ phase = "running"
    /\ last.ty = 2
    /\ inning = 10
    /\ top_of_inning

\* the game-over event has been accepted after the last out
GameOverAccepted ==
    /\ phase = "running"
    /\ last.ty = 11
    /\ game_finished
    /\ inning = 9 /\ ~top_of_inning /\ half_inning_outs = 3

\* the skipped event has been passed over after the last out
SkippedAfterLastOut ==
    /\ phase = "running"
    /\ last.id = "skipped"
    /\ ~game_finished
    /\ inning = 9 /\ ~top_of_inning /\ half_inning_outs = 3
    /\ runs(game.away) = 1

----------------------------------------------------------------------------
(* The arithmetic of the sequencing *)

\* the push of the event last' ran without a panic and without a wrapped
\* value, and an accepted event leaves the pair that follows it
ArithmeticInRange ==
    /\ phase' # "panicked"
    /\ wrapped' = wrapped
    /\ phase' = "running" => expected' = ClaimedNext(last')

\* C39 as claimed: for every event, a kind-2 event with play 0 that is not
\* the expected one and an event with no sibling ids included, expect(),
\* next() and the terminal-event test give the next expected pair or a
\* 'missing event' error, never a wrapped value or a panic.
C39_NoWrapNoPanic ==
    [][PushCalled /\ last'.id # "skipped" => ArithmeticInRange]_vars

\* push has panicked on a half-inning marker with play 0 that was not the
\* expected event
MarkerUnderflows ==
    /\ phase = "panicked"
    /\ last.ty = 2 /\ last.play = 0 /\ last.nsib > 0
    /\ expected # <<0, last.sub_play>>

\* push has panicked on an expected event that has no sibling ids
NoSiblingsUnderflows ==
    /\ phase = "panicked"
    /\ last.nsib = 0
    /\ last.ty = 2 /\ last.play = 0 /\ last.sub_play = 0
    /\ npushed = 1

----------------------------------------------------------------------------
(* Counters that are taken back *)

\* no push has panicked in a subtraction and no counter of a player reads
\* as a wrapped u32
CountersInRange ==
    /\ phase # "panicked"
    /\ \A side \in Range(Sides) : \A id \in DOMAIN game[side].stats :
          \A f \in DOMAIN DefaultStats : game[side].stats[id][f] >= 0

\* the sacrifice last' takes back an at bat that the batter of the out has
SacrificeMatched ==
    PushCalled /\ phase' # "failed" /\ IsSacrifice(last') /\ last_fielded_out # None =>
        /\ Before(last_fielded_out).at_bats >= 1
        /\ risp(Cur) => Before(last_fielded_out).at_bats_with_risp >= 1

\* C40 as claimed: no Stats counter is ever decremented below zero; every
\* sacrifice decrement of at_bats, and of at_bats_with_risp, finds the
\* increment the fielded out of the same sibling group made, also when two
\* or more runners advance or score on the same out.
C40_NoCounterBelowZero ==
    []CountersInRange /\ [][SacrificeMatched]_vars

\* the second sacrifice on one fielded out has taken A's at_bats below zero
SecondSacrificeWraps ==
    /\ phase = "running"
    /\ wrapped
    /\ IsSacrifice(last)
    /\ StatsOf(game.away.stats, "A").sacrifices = 2
    /\ StatsOf(game.away.stats, "A").walks = 1
    /\ StatsOf(game.away.stats, "A").plate_appearances = 2
    /\ StatsOf(game.away.stats, "A").at_bats = -1

====
